---- MODULE Spec2Model ----
(***************************************************************************)
(* Command buffer recording engine of the Intel ICD (icd/intel).           *)
(*                                                                         *)
(* The variable cmd is struct intel_cmd: the bind sub-state, the           *)
(* relocation table, the surface writer and the failure code.  cmd.batch   *)
(* and cmd.surface hold what the entry point that ran last appended to the *)
(* batch writer and to the surface writer; what earlier entry points wrote *)
(* is immutable and is summarised by cmd.sba_in_batch and cmd.wa_emitted.  *)
(* The variable call names the entry point that ran last and its           *)
(* arguments.  Bit masks are sets of bit names.                            *)
(***************************************************************************)
EXTENDS Integers, Sequences, FiniteSets, TLC

VARIABLES cmd, call

vars == <<cmd, call>>

(* ---------------------------------------------------------------- bounds *)

\* capacity of the relocation table (cmd->reloc_count) in the relocation specs
SmallRelocCount == 6

\* capacity of the relocation table where overflow is not the subject
LargeRelocCount == 64

(* ------------------------------------------------------------- constants *)

\* INTEL_GEN(6), INTEL_GEN(7), INTEL_GEN(7.5)
Gens == {600, 700, 750}

NoBo == "NULL"

RECURSIVE SeqSum(_)
SeqSum(s) == IF s = <<>> THEN 0 ELSE Head(s) + SeqSum(Tail(s))

u_align(val, alignment) == ((val + alignment - 1) \div alignment) * alignment

(* -------------------------------------------------- primitive operations *)

Recording(c) == c.status = "recording"

\* assert(): ends the process in a debug build, compiles away under NDEBUG
debug_check(c, cond) ==
    IF Recording(c) /\ ~cond /\ ~c.ndebug
    THEN [c EXCEPT !.status = "aborted"]
    ELSE c

\* a step of a function that runs only under a condition
When(cond, Step(_), c) == IF cond THEN Step(c) ELSE c

\* a step that takes one of two forms
Either(cond, A(_), B(_), c) == IF cond THEN A(c) ELSE B(c)

\* the statements of a function run one after the other: Step starts on the
\* state the statements before it have left
Then(c, Step(_)) == CHOOSE r \in {Step(d) : d \in {c}} : TRUE

cmd_fail(c, result) ==
    IF Recording(c) THEN [c EXCEPT !.result = result] ELSE c

\* one command of the batch: opcode, flag dword, relocated bo, the offsets it
\* carries, and the function that wrote it
Packet(op, dw1, bo, arg, by) ==
    [op |-> op, dw1 |-> dw1, bo |-> bo, arg |-> arg, by |-> by]

\* ghost: workaround sequences and primitives seen in the batch so far
CountPacket(c, pkt) ==
    IF pkt.op = "3DPRIMITIVE"
    THEN [c EXCEPT !.wa_in_draw = c.wa_emitted,
                   !.wa_emitted = [w \in DOMAIN c.wa_emitted |-> 0]]
    ELSE IF pkt.op = "PIPE_CONTROL" /\ pkt.by \in DOMAIN c.wa_emitted
    THEN [c EXCEPT !.wa_emitted[pkt.by] = @ + 1]
    ELSE IF pkt.op = "STATE_BASE_ADDRESS"
    THEN [c EXCEPT !.sba_in_batch = pkt.arg[1]]
    ELSE c

cmd_batch_pointer(c, pkt) ==
    IF Recording(c)
    THEN CountPacket([c EXCEPT !.batch = Append(@, pkt)], pkt)
    ELSE c

cmd_batch_write(c, op, by) == cmd_batch_pointer(c, Packet(op, {}, NoBo, <<>>, by))

\* cmd_reserve_reloc() that restarts the table without failing the command
\* buffer
cmd_reserve_reloc_no_fail(c, reloc_len) ==
    IF ~Recording(c) THEN c
    ELSE LET overflow == c.reloc_used + reloc_len > c.reloc_count
         IN  debug_check(
                 IF overflow
                 THEN [c EXCEPT !.reloc_used = 0,
                                !.reloc_overflow = TRUE,
                                !.reloc_excess = @ - reloc_len]
                 ELSE [c EXCEPT !.reloc_excess = @ - reloc_len],
                 (IF overflow THEN 0 ELSE c.reloc_used) + reloc_len <= c.reloc_count)

cmd_reserve_reloc(c, reloc_len) ==
    IF ~Recording(c) THEN c
    ELSE LET overflow == c.reloc_used + reloc_len > c.reloc_count
         IN  debug_check(
                 IF overflow
                 THEN [c EXCEPT !.reloc_used = 0,
                                !.reloc_overflow = TRUE,
                                !.result = "VK_ERROR_VALIDATION_FAILED_EXT",
                                !.reloc_excess = @ - reloc_len]
                 ELSE [c EXCEPT !.reloc_excess = @ - reloc_len],
                 (IF overflow THEN 0 ELSE c.reloc_used) + reloc_len <= c.reloc_count)

Reloc(which, target) == [which |-> which, target |-> target]

NoReloc == Reloc("none", "none")

cmd_writer_reloc(c, which, target) ==
    IF ~Recording(c) THEN c
    ELSE IF c.reloc_used < c.reloc_count
    THEN [c EXCEPT !.relocs[c.reloc_used] = Reloc(which, target),
                   !.reloc_used = @ + 1,
                   !.reloc_excess = @ + 1]
    \* assert(cmd->reloc_used < cmd->reloc_count)
    ELSE IF ~c.ndebug THEN [c EXCEPT !.status = "aborted"]
    \* the store lands behind the table: undefined behaviour
    ELSE [c EXCEPT !.status = "corrupt",
                   !.reloc_used = @ + 1,
                   !.reloc_excess = @ + 1]

cmd_batch_reloc(c, target) == cmd_writer_reloc(c, "BATCH", target)

cmd_surface_reloc(c, target) == cmd_writer_reloc(c, "SURFACE", target)

cmd_batch_reloc_writer(c, writer) == cmd_writer_reloc(c, "BATCH", writer)

\* cmd_reserve_reloc(cmd, n) directly followed by n additions
RECURSIVE reserve_and_reloc(_, _, _, _)
reserve_and_reloc(c, which, targets, first) ==
    IF ~Recording(c) \/ targets = <<>> THEN c
    ELSE Then(Then(Then(c,
             LAMBDA d : When(first, LAMBDA e : cmd_reserve_reloc(e, Len(targets)), d)),
             LAMBDA d : cmd_writer_reloc(d, which, Head(targets))),
             LAMBDA d : reserve_and_reloc(d, which, Tail(targets), FALSE))

SurfaceItem(type, offset, size, data) ==
    [type |-> type, offset |-> offset, size |-> size, data |-> data]

\* cmd_surface_write: returns the state with the item written; the offset is
\* surface_offset of the state before the call
surface_offset(c, alignment) == u_align(c.surface_used, alignment)

cmd_surface_write(c, item, alignment, len, data) ==
    IF ~Recording(c) THEN c
    ELSE LET offset == surface_offset(c, alignment)
         IN  [c EXCEPT !.surface_used = offset + 4 * len,
                       !.surface = Append(@, SurfaceItem(item, offset, 4 * len, data))]

(* ------------------------------------------------------------ PIPE_CONTROL *)

WaNames == {"cmd_wa_gen6_pre_depth_stall_write",
            "cmd_wa_gen6_pre_command_scoreboard_stall",
            "cmd_wa_gen7_pre_vs_depth_stall_write",
            "cmd_wa_gen7_post_command_cs_stall",
            "cmd_wa_gen7_post_command_depth_stall",
            "cmd_wa_gen6_pre_multisample_depth_flush",
            "cmd_wa_gen6_pre_ds_flush"}

\* the bits one of which has to accompany CS_STALL (cmd_batch_flush)
CompanionBits == {"RENDER_CACHE_FLUSH", "DEPTH_CACHE_FLUSH",
                  "PIXEL_SCOREBOARD_STALL", "DEPTH_STALL"}

\* GEN6_PIPE_CONTROL_WRITE__MASK
WriteBits == {"WRITE_IMM", "WRITE_PS_DEPTH_COUNT", "WRITE_TIMESTAMP"}

FlushBits == {"RENDER_CACHE_FLUSH", "DEPTH_CACHE_FLUSH", "DC_FLUSH"}

InvalidateBits == {"TEXTURE_CACHE_INVALIDATE", "CONSTANT_CACHE_INVALIDATE",
                   "VF_CACHE_INVALIDATE", "INSTRUCTION_CACHE_INVALIDATE"}

gen6_PIPE_CONTROL_bit_test(gen) ==
    CompanionBits \cup WriteBits \cup
        (IF gen = 600 THEN {"NOTIFY_ENABLE"} ELSE {})

gen6_PIPE_CONTROL(c, dw1, bo, by) ==
    IF ~Recording(c) THEN c
    ELSE Then(Then(Then(Then(c,
             LAMBDA d : debug_check(d, "CS_STALL" \in dw1 =>
                            dw1 \cap gen6_PIPE_CONTROL_bit_test(c.gen) # {})),
             LAMBDA d : debug_check(d, "DEPTH_STALL" \in dw1 =>
                            dw1 \cap {"RENDER_CACHE_FLUSH", "DEPTH_CACHE_FLUSH"} = {})),
             LAMBDA d : cmd_batch_pointer(d, Packet("PIPE_CONTROL", dw1, bo, <<>>, by))),
             LAMBDA d : reserve_and_reloc(d, "BATCH",
                                          IF bo # NoBo THEN <<bo>> ELSE <<>>, TRUE))

(* ------------------------------------------------------------- workarounds *)

\* cmd_wa_gen6_pre_depth_stall_write() that does not look at its flag
cmd_wa_gen6_pre_depth_stall_write_unguarded(c) ==
    IF ~Recording(c) \/ c.draw_count = 0 THEN c
    ELSE gen6_PIPE_CONTROL(
             gen6_PIPE_CONTROL(
                 [c EXCEPT !.wa_flags = @ \cup {"PRE_DEPTH_STALL_WRITE"}],
                 {"CS_STALL", "PIXEL_SCOREBOARD_STALL"}, NoBo,
                 "cmd_wa_gen6_pre_depth_stall_write"),
             {"WRITE_IMM"}, "scratch_bo", "cmd_wa_gen6_pre_depth_stall_write")

cmd_wa_gen6_pre_depth_stall_write(c) ==
    IF ~Recording(c) \/ c.draw_count = 0 THEN c
    ELSE IF "PRE_DEPTH_STALL_WRITE" \in c.wa_flags THEN c
    ELSE LET by == "cmd_wa_gen6_pre_depth_stall_write"
             c1 == [c EXCEPT !.wa_flags = @ \cup {"PRE_DEPTH_STALL_WRITE"}]
             c2 == gen6_PIPE_CONTROL(c1, {"CS_STALL", "PIXEL_SCOREBOARD_STALL"},
                                     NoBo, by)
         IN  gen6_PIPE_CONTROL(c2, {"WRITE_IMM"}, "scratch_bo", by)

cmd_wa_gen6_pre_command_scoreboard_stall(c) ==
    IF ~Recording(c) \/ c.draw_count = 0 THEN c
    ELSE gen6_PIPE_CONTROL(c, {"PIXEL_SCOREBOARD_STALL"}, NoBo,
                           "cmd_wa_gen6_pre_command_scoreboard_stall")

cmd_wa_gen7_pre_vs_depth_stall_write(c) ==
    IF ~Recording(c) \/ c.draw_count = 0 THEN c
    ELSE gen6_PIPE_CONTROL(cmd_wa_gen6_pre_depth_stall_write(c),
                           {"DEPTH_STALL", "WRITE_IMM"}, "scratch_bo",
                           "cmd_wa_gen7_pre_vs_depth_stall_write")

cmd_wa_gen7_post_command_cs_stall(c) ==
    gen6_PIPE_CONTROL(c, {"CS_STALL", "PIXEL_SCOREBOARD_STALL"}, NoBo,
                      "cmd_wa_gen7_post_command_cs_stall")

cmd_wa_gen7_post_command_depth_stall(c) ==
    gen6_PIPE_CONTROL(cmd_wa_gen6_pre_depth_stall_write(c),
                      {"DEPTH_STALL"}, NoBo,
                      "cmd_wa_gen7_post_command_depth_stall")

cmd_wa_gen6_pre_multisample_depth_flush(c) ==
    IF ~Recording(c) \/ c.draw_count = 0 THEN c
    ELSE gen6_PIPE_CONTROL(c, {"DEPTH_CACHE_FLUSH", "CS_STALL"}, NoBo,
                           "cmd_wa_gen6_pre_multisample_depth_flush")

cmd_wa_gen6_pre_ds_flush(c) ==
    IF ~Recording(c) \/ c.draw_count = 0 THEN c
    ELSE Then(Then(c, cmd_wa_gen6_pre_depth_stall_write),
              LAMBDA d :
                  gen6_PIPE_CONTROL(
                      gen6_PIPE_CONTROL(
                          gen6_PIPE_CONTROL(d, {"DEPTH_STALL"}, NoBo,
                                            "cmd_wa_gen6_pre_ds_flush"),
                          {"DEPTH_CACHE_FLUSH"}, NoBo, "cmd_wa_gen6_pre_ds_flush"),
                      {"DEPTH_STALL"}, NoBo, "cmd_wa_gen6_pre_ds_flush"))

(* ------------------------------------------------------- batch level state *)

\* cmd_batch_state_base_address() that programs the base of the start of the
\* surface writer whatever sba_offset is
cmd_batch_state_base_address_zero(c) ==
    LET c1 == cmd_batch_pointer(c, Packet("STATE_BASE_ADDRESS", {}, NoBo, <<1>>,
                                          "cmd_batch_state_base_address"))
    IN  reserve_and_reloc(c1, "BATCH",
                          <<"WRITER_SURFACE", "WRITER_STATE", "WRITER_INSTRUCTION">>,
                          TRUE)

\* the relocation of dw[2] carries sba_offset + 1 (bit 0 is "modify enable")
cmd_batch_state_base_address(c) ==
    LET c1 == cmd_batch_pointer(c, Packet("STATE_BASE_ADDRESS", {}, NoBo,
                                          <<c.surface_sba + 1>>,
                                          "cmd_batch_state_base_address"))
    IN  reserve_and_reloc(c1, "BATCH",
                          <<"WRITER_SURFACE", "WRITER_STATE", "WRITER_INSTRUCTION">>,
                          TRUE)

cmd_batch_push_const_alloc(c) ==
    IF c.gen <= 600 THEN c
    ELSE cmd_wa_gen7_post_command_cs_stall(
             cmd_batch_write(c, "3DSTATE_PUSH_CONSTANT_ALLOC", "cmd_batch_push_const_alloc"))

cmd_batch_begin(c) == cmd_batch_push_const_alloc(cmd_batch_state_base_address(c))

\* cmd_batch_flush() without the pixel-scoreboard companion of a lone CS_STALL
cmd_batch_flush_lone_stall(c, pipe_control_dw0) ==
    IF ~Recording(c) THEN c
    ELSE IF pipe_control_dw0 = {} THEN c
    ELSE IF c.draw_count = 0 THEN c
    ELSE gen6_PIPE_CONTROL(
             When("RENDER_CACHE_FLUSH" \in pipe_control_dw0,
                  cmd_wa_gen6_pre_depth_stall_write,
                  debug_check(c, pipe_control_dw0 \cap WriteBits = {})),
             pipe_control_dw0, NoBo, "cmd_batch_flush")

\* cmd_batch_flush() that flushes although nothing has been drawn
cmd_batch_flush_before_draw(c, pipe_control_dw0) ==
    IF ~Recording(c) THEN c
    ELSE IF pipe_control_dw0 = {} THEN c
    ELSE gen6_PIPE_CONTROL(
             When("RENDER_CACHE_FLUSH" \in pipe_control_dw0,
                  cmd_wa_gen6_pre_depth_stall_write,
                  debug_check(c, pipe_control_dw0 \cap WriteBits = {})),
             IF "CS_STALL" \in pipe_control_dw0 /\
                pipe_control_dw0 \cap CompanionBits = {}
             THEN pipe_control_dw0 \cup {"PIXEL_SCOREBOARD_STALL"}
             ELSE pipe_control_dw0,
             NoBo, "cmd_batch_flush")

cmd_batch_flush(c, pipe_control_dw0) ==
    IF ~Recording(c) THEN c
    ELSE IF pipe_control_dw0 = {} THEN c
    ELSE IF c.draw_count = 0 THEN c
    ELSE gen6_PIPE_CONTROL(
             When("RENDER_CACHE_FLUSH" \in pipe_control_dw0,
                  cmd_wa_gen6_pre_depth_stall_write,
                  debug_check(c, pipe_control_dw0 \cap WriteBits = {})),
             IF "CS_STALL" \in pipe_control_dw0 /\
                pipe_control_dw0 \cap CompanionBits = {}
             THEN pipe_control_dw0 \cup {"PIXEL_SCOREBOARD_STALL"}
             ELSE pipe_control_dw0,
             NoBo, "cmd_batch_flush")

cmd_batch_depth_count(c, bo) ==
    gen6_PIPE_CONTROL(cmd_wa_gen6_pre_depth_stall_write(c),
                      {"DEPTH_STALL", "WRITE_PS_DEPTH_COUNT"}, bo,
                      "cmd_batch_depth_count")

cmd_batch_timestamp(c, bo) ==
    gen6_PIPE_CONTROL(c, {"WRITE_TIMESTAMP"}, bo, "cmd_batch_timestamp")

cmd_batch_immediate(c, pipe_control_flags, bo) ==
    gen6_PIPE_CONTROL(c, {"WRITE_IMM"} \cup pipe_control_flags, bo,
                      "cmd_batch_immediate")

cmd_batch_flush_all(c) ==
    cmd_batch_flush(c, {"INSTRUCTION_CACHE_INVALIDATE", "RENDER_CACHE_FLUSH",
                        "DEPTH_CACHE_FLUSH", "VF_CACHE_INVALIDATE",
                        "TEXTURE_CACHE_INVALIDATE", "CONSTANT_CACHE_INVALIDATE",
                        "CS_STALL"})

(* ------------------------------------------------------- images and views *)

Images == {"color_img", "ds_img"}

\* icd_format_is_ds(img->layout.format)
icd_format_is_ds(img) == img = "ds_img"

\* struct intel_att_view
AttView(img, is_rt, has_stencil, has_hiz) ==
    [img |-> img, is_rt |-> is_rt, has_stencil |-> has_stencil,
     has_hiz |-> has_hiz]

\* the all-zeros view used when no depth/stencil attachment is bound
null_view == AttView(NoBo, FALSE, FALSE, FALSE)

gen6_3DSTATE_DEPTH_BUFFER(c, view, optimal_ds) ==
    reserve_and_reloc(
        cmd_batch_write(c, "3DSTATE_DEPTH_BUFFER", "gen6_3DSTATE_DEPTH_BUFFER"),
        "BATCH", IF view.img # NoBo THEN <<view.img>> ELSE <<>>, TRUE)

gen6_3DSTATE_STENCIL_BUFFER(c, view, optimal_ds) ==
    reserve_and_reloc(
        cmd_batch_write(c, "3DSTATE_STENCIL_BUFFER", "gen6_3DSTATE_STENCIL_BUFFER"),
        "BATCH", IF view.has_stencil THEN <<view.img>> ELSE <<>>, TRUE)

gen6_3DSTATE_HIER_DEPTH_BUFFER(c, view, optimal_ds) ==
    reserve_and_reloc(
        cmd_batch_write(c, "3DSTATE_HIER_DEPTH_BUFFER",
                        "gen6_3DSTATE_HIER_DEPTH_BUFFER"),
        "BATCH", IF view.has_hiz /\ optimal_ds THEN <<view.img>> ELSE <<>>, TRUE)

gen6_3DSTATE_CLEAR_PARAMS(c) ==
    cmd_batch_write(c, "3DSTATE_CLEAR_PARAMS", "gen6_3DSTATE_CLEAR_PARAMS")

gen6_3DPRIMITIVE(c, by) ==
    cmd_batch_pointer(c, Packet("3DPRIMITIVE", {}, NoBo, <<c.draw_count>>, by))

gen7_3DPRIMITIVE(c, by) ==
    cmd_batch_pointer(c, Packet("3DPRIMITIVE", {}, NoBo, <<c.draw_count>>, by))

(* ------------------------------------------------------ surface base address *)

\* GEN6_ALIGNMENT_SURFACE_STATE and GEN6_ALIGNMENT_BINDING_TABLE_STATE, bytes
GEN6_ALIGNMENT_SURFACE_STATE == 32

GEN6_ALIGNMENT_BINDING_TABLE_STATE == 32

\* length of a SURFACE_STATE in dwords: 6 on gen6, 8 from gen7 on
SurfaceStateLen(gen) == IF gen >= 700 THEN 8 ELSE 6

\* the five hardware shader stages, in emission order
Stages == <<"vs", "tcs", "tes", "gs", "fs">>

\* struct intel_pipeline_rmap; NoRmap is the NULL rmap
Rmap(rt_count, texture_resource_count, resource_count, uav_count, slots) ==
    [rt_count |-> rt_count, texture_resource_count |-> texture_resource_count,
     resource_count |-> resource_count, uav_count |-> uav_count, slots |-> slots]

NoRmap == Rmap(0, 0, 0, 0, <<>>)

rmap_surface_count(rmap) ==
    rmap.rt_count + rmap.texture_resource_count + rmap.resource_count +
    rmap.uav_count

RECURSIVE max_write_of(_, _)
max_write_of(rmaps, i) ==
    IF i > Len(Stages) THEN 0
    ELSE LET surface_count == rmap_surface_count(rmaps[Stages[i]])
         IN  (IF surface_count # 0
              THEN GEN6_ALIGNMENT_SURFACE_STATE * surface_count +
                   u_align(4 * surface_count, GEN6_ALIGNMENT_SURFACE_STATE)
              ELSE 0) + max_write_of(rmaps, i + 1)

cmd_get_max_surface_write(pipeline) ==
    GEN6_ALIGNMENT_SURFACE_STATE + max_write_of(pipeline.rmaps, 1)

\* 64KB limit on BINDING_TABLE_STATEs
BindingTableLimit == 64 * 1024

PageSize == 4096

(* ------------------------------------------- pipelines, passes, descriptors *)

\* struct intel_pipeline_rmap_slot: type is RT, SURFACE, UNUSED or SAMPLER;
\* index is the colour attachment for RT and desc names the descriptor read
\* for SURFACE
Slot(type, index, desc) == [type |-> type, index |-> index, desc |-> desc]

NoDesc == "none"

\* what intel_desc_region_read_surface finds: a NULL mem for an unset entry
DescRegion ==
    [d \in {"desc_buf", "desc_img", "desc_unset"} |->
        CASE d = "desc_buf"   -> [mem |-> "buf_bo", read_only |-> FALSE]
          [] d = "desc_img"   -> [mem |-> "img_bo", read_only |-> TRUE]
          [] d = "desc_unset" -> [mem |-> NoBo, read_only |-> FALSE]]

\* struct intel_pipeline, the parts the draw path reads
Pipeline(name, wa_flags, rmaps, vb_count, scratch) ==
    [name |-> name, wa_flags |-> wa_flags, rmaps |-> rmaps,
     vb_count |-> vb_count, scratch |-> scratch,
     primitive_restart |-> FALSE, prim_type |-> "TRILIST",
     primitive_restart_index |-> "0x0"]

\* the pipeline with primitive restart enabled
WithRestart(p, prim_type, index) ==
    [p EXCEPT !.primitive_restart = TRUE, !.prim_type = prim_type,
              !.primitive_restart_index = index]

\* rmaps of a pipeline whose fragment shader uses the given slots
FsRmaps(rmap) ==
    [s \in {"vs", "tcs", "tes", "gs", "fs"} |-> IF s = "fs" THEN rmap ELSE NoRmap]

NoPipeline == Pipeline("NULL", {}, FsRmaps(NoRmap), 0, FALSE)

\* VK_ATTACHMENT_UNUSED
AttachmentUnused == 99

\* struct intel_render_pass with its first subpass, and struct intel_fb
RenderPass(name, clear_on_load, color_indices, ds_index, ds_optimal) ==
    [name |-> name, attachment_count |-> Len(clear_on_load),
     clear_on_load |-> clear_on_load,
     color_count |-> Len(color_indices), color_indices |-> color_indices,
     ds_index |-> ds_index, ds_optimal |-> ds_optimal]

NoRenderPass == RenderPass("NULL", <<>>, <<>>, AttachmentUnused, FALSE)

Fb(views) == [view_count |-> Len(views), views |-> views]

NoFb == Fb(<<>>)

color_view == AttView("color_img", TRUE, FALSE, FALSE)

ds_view == AttView("ds_img", FALSE, TRUE, TRUE)

\* struct intel_cmd_meta, the parts the meta path reads
Meta(mode, src_valid, dst_valid, ds_op, view, optimal) ==
    [mode |-> mode, src_valid |-> src_valid, dst_valid |-> dst_valid,
     ds_op |-> ds_op, view |-> view, optimal |-> optimal]

NoMeta == Meta("NULL", FALSE, FALSE, "NOP", null_view, FALSE)

\* cmd_adjust_state_base_address() that leaves the base where it is
cmd_adjust_state_base_address_never(c) == c

cmd_adjust_state_base_address(c) ==
    LET cur_surface_offset == c.surface_used - c.surface_sba
        max_surface_write == IF c.meta # NoMeta THEN 64 * 4
                             ELSE cmd_get_max_surface_write(c.pipeline)
    IN  IF ~Recording(c) THEN c
        ELSE IF cur_surface_offset + max_surface_write > BindingTableLimit
        THEN cmd_batch_state_base_address(
                 debug_check(
                     [c EXCEPT !.surface_sba =
                                   c.surface_used - (c.surface_used % PageSize)],
                     (c.surface_used % PageSize) + max_surface_write
                         <= BindingTableLimit))
        ELSE c

(* ------------------------------------------------------------- meta draws *)

gen6_meta_dynamic_states(c) ==
    IF c.gen >= 700
    THEN cmd_batch_write(
             cmd_batch_write(
                 cmd_batch_write(
                     cmd_batch_write(c, "3DSTATE_BLEND_STATE_POINTERS",
                                     "gen6_meta_dynamic_states"),
                     "3DSTATE_DEPTH_STENCIL_STATE_POINTERS",
                     "gen6_meta_dynamic_states"),
                 "3DSTATE_CC_STATE_POINTERS", "gen6_meta_dynamic_states"),
             "3DSTATE_VIEWPORT_STATE_POINTERS_CC", "gen6_meta_dynamic_states")
    ELSE cmd_batch_write(
             cmd_batch_write(c, "3DSTATE_CC_STATE_POINTERS",
                             "gen6_meta_dynamic_states"),
             "3DSTATE_VIEWPORT_STATE_POINTERS", "gen6_meta_dynamic_states")

\* one SURFACE_STATE of the meta-op, its relocation and its binding_table[]
\* entry (i counts from 1)
gen6_meta_surface_state(c, i, data, bo) ==
    IF ~Recording(c) THEN c
    ELSE [reserve_and_reloc(
              cmd_surface_write(c, "SURFACE", GEN6_ALIGNMENT_SURFACE_STATE,
                                SurfaceStateLen(c.gen), data),
              "SURFACE", <<bo>>, TRUE)
          EXCEPT !.binding_table[i] =
                     surface_offset(c, GEN6_ALIGNMENT_SURFACE_STATE) - c.surface_sba]

gen6_meta_src_surface(c) == gen6_meta_surface_state(c, 1, "meta_src", "meta_src_bo")

gen6_meta_dst_surface(c) == gen6_meta_surface_state(c, 2, "meta_dst", "meta_dst_bo")

\* the BINDING_TABLE of the meta-op and the pointer to it
gen6_meta_binding_table(c) ==
    cmd_batch_pointer(
        [cmd_surface_write(c, "BINDING_TABLE", GEN6_ALIGNMENT_BINDING_TABLE_STATE,
                           2, c.binding_table)
         EXCEPT !.binding_table = <<>>],
        Packet(IF c.gen >= 700
               THEN (IF c.meta.mode = "VS_POINTS"
                     THEN "3DSTATE_BINDING_TABLE_POINTERS_VS"
                     ELSE "3DSTATE_BINDING_TABLE_POINTERS_PS")
               ELSE "3DSTATE_BINDING_TABLE_POINTERS",
               {}, NoBo,
               <<surface_offset(c, GEN6_ALIGNMENT_BINDING_TABLE_STATE)
                     - c.surface_sba>>,
               "gen6_meta_surface_states"))

gen6_meta_surface_states(c) ==
    IF c.meta.mode = "DEPTH_STENCIL_RECT" \/ ~Recording(c) THEN c
    ELSE gen6_meta_binding_table(
             When(c.meta.dst_valid, gen6_meta_dst_surface,
                  When(c.meta.src_valid, gen6_meta_src_surface,
                       [c EXCEPT !.binding_table = <<0, 0>>])))

gen6_meta_urb(c) == cmd_batch_write(c, "3DSTATE_URB", "gen6_meta_urb")

gen7_meta_urb(c) ==
    cmd_batch_write(cmd_wa_gen7_pre_vs_depth_stall_write(c),
                    "3DSTATE_URB_x", "gen7_meta_urb")

gen6_meta_vf(c) ==
    IF c.meta.mode = "VS_POINTS"
    THEN cmd_batch_write(c, "3DSTATE_VERTEX_ELEMENTS", "gen6_meta_vf")
    ELSE LET c1 == cmd_batch_write(c, "3DSTATE_VERTEX_BUFFERS", "gen6_meta_vf")
             c2 == reserve_and_reloc(c1, "BATCH",
                                     <<"WRITER_STATE", "WRITER_STATE">>, TRUE)
         IN  cmd_batch_write(c2, "3DSTATE_VERTEX_ELEMENTS", "gen6_meta_vf")

gen6_meta_vs(c) ==
    cmd_batch_write(cmd_batch_write(c, "3DSTATE_CONSTANT_VS", "gen6_meta_vs"),
                    "3DSTATE_VS", "gen6_meta_vs")

\* the packets that switch off GS and SF (gen6), HS, TE, DS, GS, STREAMOUT,
\* SF and SBE (gen7); none carries a relocation
gen6_meta_disabled(c) ==
    cmd_batch_write(c, "3DSTATE_GS_SF_disabled", "gen6_meta_disabled")

gen7_meta_disabled(c) ==
    cmd_batch_write(c, "3DSTATE_HS_TE_DS_GS_SF_disabled", "gen7_meta_disabled")

gen6_meta_clip(c) == cmd_batch_write(c, "3DSTATE_CLIP", "gen6_meta_clip")

gen6_meta_wm(c) ==
    LET c1 == cmd_wa_gen6_pre_multisample_depth_flush(c)
        c2 == cmd_batch_write(c1, "3DSTATE_MULTISAMPLE", "gen6_meta_wm")
        c3 == cmd_batch_write(c2, "3DSTATE_SAMPLE_MASK", "gen6_meta_wm")
    IN  cmd_batch_write(c3, "3DSTATE_DRAWING_RECTANGLE", "gen6_meta_wm")

\* dw[4] (gen6) or dw[1] (gen7) of the 3DSTATE_WM of a meta-op: the
\* depth operation of meta->ds.op
meta_wm_op(c) ==
    IF c.meta.mode = "FS_RECT" THEN {}
    ELSE CASE c.meta.ds_op = "DS_HIZ_CLEAR" -> {"DEPTH_CLEAR"}
           [] c.meta.ds_op = "DS_HIZ_RESOLVE" -> {"HIZ_RESOLVE"}
           [] c.meta.ds_op = "DS_RESOLVE" -> {"DEPTH_RESOLVE"}
           [] OTHER -> {}

gen6_meta_ps(c) ==
    cmd_batch_pointer(cmd_batch_write(c, "3DSTATE_CONSTANT_PS", "gen6_meta_ps"),
                      Packet("3DSTATE_WM", meta_wm_op(c), NoBo, <<>>,
                             "gen6_meta_ps"))

gen7_meta_ps(c) ==
    cmd_batch_write(
        cmd_batch_write(
            cmd_batch_pointer(c, Packet("3DSTATE_WM", meta_wm_op(c), NoBo, <<>>,
                                        "gen7_meta_ps")),
            "3DSTATE_CONSTANT_PS", "gen7_meta_ps"),
        "3DSTATE_PS", "gen7_meta_ps")

gen6_meta_depth_buffer(c) ==
    Then(Then(c, cmd_wa_gen6_pre_ds_flush),
         LAMBDA d :
             gen6_3DSTATE_CLEAR_PARAMS(
                 gen6_3DSTATE_HIER_DEPTH_BUFFER(
                     gen6_3DSTATE_STENCIL_BUFFER(
                         gen6_3DSTATE_DEPTH_BUFFER(d, c.meta.view, c.meta.optimal),
                         c.meta.view, c.meta.optimal),
                     c.meta.view, c.meta.optimal)))

\* the end of cmd_draw_meta() that leaves render_pass_changed as it was
cmd_draw_meta_end_keep_changed(c) ==
    IF ~Recording(c) THEN c
    ELSE When(c.nocache, cmd_batch_flush_all,
              [c EXCEPT !.draw_count = @ + 1,
                        !.wa_flags = {},
                        !.meta = NoMeta])

\* the statements of cmd_draw_meta() after the primitive
cmd_draw_meta_end(c) ==
    IF ~Recording(c) THEN c
    ELSE When(c.nocache, cmd_batch_flush_all,
              [c EXCEPT !.draw_count = @ + 1,
                        !.wa_flags = {},
                        !.meta = NoMeta,
                        !.render_pass_changed = TRUE])

cmd_draw_meta(c, meta) ==
    IF ~Recording(c) THEN c
    ELSE Then(Then(Then(Then(Then(
             [c EXCEPT !.meta = meta],
             LAMBDA d : cmd_wa_gen6_pre_command_scoreboard_stall(
                            cmd_wa_gen6_pre_depth_stall_write(
                                cmd_adjust_state_base_address(d)))),
             LAMBDA d : gen6_meta_surface_states(gen6_meta_dynamic_states(d))),
             LAMBDA d : Either(c.gen >= 700,
                            LAMBDA e : gen6_meta_clip(gen7_meta_disabled(
                                       gen6_meta_vs(gen6_meta_vf(gen7_meta_urb(e))))),
                            LAMBDA e : gen6_meta_clip(gen6_meta_disabled(
                                       gen6_meta_vs(gen6_meta_vf(gen6_meta_urb(e))))),
                            d)),
             LAMBDA d : gen6_meta_depth_buffer(
                            Either(c.gen >= 700, gen7_meta_ps, gen6_meta_ps,
                                   gen6_meta_wm(d)))),
             LAMBDA d : cmd_draw_meta_end(
                            Either(c.gen >= 700,
                                LAMBDA e : gen7_3DPRIMITIVE(
                                    cmd_wa_gen7_post_command_depth_stall(
                                        cmd_wa_gen7_post_command_cs_stall(e)),
                                    "cmd_draw_meta"),
                                LAMBDA e : gen6_3DPRIMITIVE(e, "cmd_draw_meta"),
                                d)))

\* cmd_meta.c: one depth-buffer-only rectangle draw on the image, with
\* ds.op = op and the optimal depth layout
cmd_meta_ds_op(c, op, img) ==
    cmd_draw_meta(c, Meta("DEPTH_STENCIL_RECT", FALSE, FALSE, op,
                          AttView(img, FALSE, TRUE, TRUE), TRUE))

\* cmd_meta.c: one rectangle draw of the clear colour into the image
cmd_meta_clear_color_image(c, img) ==
    cmd_draw_meta(c, Meta("FS_RECT", FALSE, TRUE, "NOP", null_view, FALSE))

(* ---------------------------------------------------------------- barriers *)

Layouts == {"UNDEFINED", "GENERAL", "COLOR_ATTACHMENT_OPTIMAL",
            "DEPTH_STENCIL_ATTACHMENT_OPTIMAL", "DEPTH_STENCIL_READ_ONLY_OPTIMAL",
            "SHADER_READ_ONLY_OPTIMAL", "TRANSFER_SRC_OPTIMAL",
            "TRANSFER_DST_OPTIMAL", "PREINITIALIZED", "PRESENT_SRC_KHR"}

img_get_layout_ops(layout) ==
    CASE layout \in {"GENERAL", "PRESENT_SRC_KHR"} -> {"READ_OP", "WRITE_OP"}
      [] layout = "COLOR_ATTACHMENT_OPTIMAL" -> {"READ_OP", "WRITE_OP"}
      [] layout = "DEPTH_STENCIL_ATTACHMENT_OPTIMAL" ->
             {"READ_OP", "WRITE_OP", "HIZ_OP"}
      [] layout = "DEPTH_STENCIL_READ_ONLY_OPTIMAL" -> {"READ_OP", "HIZ_OP"}
      [] layout = "SHADER_READ_ONLY_OPTIMAL" -> {"READ_OP"}
      [] layout = "TRANSFER_SRC_OPTIMAL" -> {"READ_OP"}
      [] layout = "TRANSFER_DST_OPTIMAL" -> {"WRITE_OP"}
      [] OTHER -> {}

img_get_layout_caches(layout) ==
    CASE layout \in {"GENERAL", "PRESENT_SRC_KHR"} ->
             {"MEM_CACHE", "DATA_READ_CACHE", "DATA_WRITE_CACHE",
              "RENDER_CACHE", "SAMPLER_CACHE"}
      [] layout = "COLOR_ATTACHMENT_OPTIMAL" -> {"DATA_WRITE_CACHE", "RENDER_CACHE"}
      [] layout = "DEPTH_STENCIL_ATTACHMENT_OPTIMAL" ->
             {"DATA_WRITE_CACHE", "RENDER_CACHE"}
      [] layout = "DEPTH_STENCIL_READ_ONLY_OPTIMAL" -> {"RENDER_CACHE"}
      [] layout = "SHADER_READ_ONLY_OPTIMAL" -> {"DATA_READ_CACHE", "SAMPLER_CACHE"}
      [] layout = "TRANSFER_SRC_OPTIMAL" ->
             {"MEM_CACHE", "DATA_READ_CACHE", "RENDER_CACHE", "SAMPLER_CACHE"}
      [] layout = "TRANSFER_DST_OPTIMAL" ->
             {"MEM_CACHE", "DATA_WRITE_CACHE", "RENDER_CACHE"}
      [] OTHER -> {}

\* cmd_resolve_depth() that does not ask whether the old layout is written
cmd_resolve_depth_any_old(c, img, old_layout, new_layout) ==
    LET old_ops == img_get_layout_ops(old_layout)
        new_ops == img_get_layout_ops(new_layout)
    IN  IF "HIZ_OP" \in old_ops /\ "HIZ_OP" \notin new_ops
        THEN cmd_meta_ds_op(c, "DS_RESOLVE", img)
        ELSE IF "HIZ_OP" \notin old_ops /\ "HIZ_OP" \in new_ops
        THEN cmd_meta_ds_op(c, "DS_HIZ_RESOLVE", img)
        ELSE c

cmd_resolve_depth(c, img, old_layout, new_layout) ==
    LET old_ops == img_get_layout_ops(old_layout)
        new_ops == img_get_layout_ops(new_layout)
    IN  IF "WRITE_OP" \in old_ops
        THEN IF "HIZ_OP" \in old_ops /\ "HIZ_OP" \notin new_ops
             THEN cmd_meta_ds_op(c, "DS_RESOLVE", img)
             ELSE IF "HIZ_OP" \notin old_ops /\ "HIZ_OP" \in new_ops
             THEN cmd_meta_ds_op(c, "DS_HIZ_RESOLVE", img)
             ELSE c
        ELSE c

\* cmd_get_flush_flags() that leaves the stall to the caller
cmd_get_flush_flags_no_stall(gen, old_caches, new_caches, is_ds) ==
    IF old_caches \cap {"MEM_CACHE", "RENDER_CACHE", "DATA_WRITE_CACHE"} = {}
    THEN {}
    ELSE (IF "RENDER_CACHE" \in old_caches /\ new_caches \ {"RENDER_CACHE"} # {}
          THEN (IF is_ds THEN {"DEPTH_CACHE_FLUSH"} ELSE {"RENDER_CACHE_FLUSH"})
          ELSE {}) \cup
         (IF "DATA_WRITE_CACHE" \in old_caches /\
             new_caches \ {"DATA_READ_CACHE", "DATA_WRITE_CACHE"} # {} /\ gen >= 700
          THEN {"DC_FLUSH"} ELSE {}) \cup
         (IF "SAMPLER_CACHE" \in new_caches
          THEN {"TEXTURE_CACHE_INVALIDATE"} ELSE {}) \cup
         (IF "DATA_READ_CACHE" \in new_caches /\ old_caches # {"DATA_WRITE_CACHE"}
          THEN {"CONSTANT_CACHE_INVALIDATE"} ELSE {})

cmd_get_flush_flags(gen, old_caches, new_caches, is_ds) ==
    IF old_caches \cap {"MEM_CACHE", "RENDER_CACHE", "DATA_WRITE_CACHE"} = {}
    THEN {}
    ELSE LET flags ==
                 (IF "RENDER_CACHE" \in old_caches /\
                     new_caches \ {"RENDER_CACHE"} # {}
                  THEN (IF is_ds THEN {"DEPTH_CACHE_FLUSH"}
                        ELSE {"RENDER_CACHE_FLUSH"})
                  ELSE {}) \cup
                 (IF "DATA_WRITE_CACHE" \in old_caches /\
                     new_caches \ {"DATA_READ_CACHE", "DATA_WRITE_CACHE"} # {} /\
                     gen >= 700
                  THEN {"DC_FLUSH"} ELSE {}) \cup
                 (IF "SAMPLER_CACHE" \in new_caches
                  THEN {"TEXTURE_CACHE_INVALIDATE"} ELSE {}) \cup
                 (IF "DATA_READ_CACHE" \in new_caches /\
                     old_caches # {"DATA_WRITE_CACHE"}
                  THEN {"CONSTANT_CACHE_INVALIDATE"} ELSE {})
         IN  IF flags = {} THEN {} ELSE flags \cup {"CS_STALL"}

\* VkMemoryBarrier / VkBufferMemoryBarrier: the two access masks
MemBarrier(src, dst) == [srcAccessMask |-> src, dstAccessMask |-> dst]

\* VkImageMemoryBarrier
ImageBarrier(src, dst, image, old, new) ==
    [srcAccessMask |-> src, dstAccessMask |-> dst, image |-> image,
     oldLayout |-> old, newLayout |-> new]

RECURSIVE access_union(_, _)
access_union(barriers, field) ==
    IF barriers = <<>> THEN {}
    ELSE Head(barriers)[field] \cup access_union(Tail(barriers), field)

\* the image barrier loop: the state after the depth resolves, and the flush
\* flags the barriers add
RECURSIVE image_barriers_resolve(_, _)
image_barriers_resolve(c, image_mem_barriers) ==
    IF image_mem_barriers = <<>> THEN c
    ELSE LET b == Head(image_mem_barriers)
         IN  image_barriers_resolve(
                 cmd_resolve_depth(c, b.image, b.oldLayout, b.newLayout),
                 Tail(image_mem_barriers))

RECURSIVE image_barriers_flags(_, _)
image_barriers_flags(gen, image_mem_barriers) ==
    IF image_mem_barriers = <<>> THEN {}
    ELSE LET b == Head(image_mem_barriers)
         IN  cmd_get_flush_flags(gen, img_get_layout_caches(b.oldLayout),
                                 img_get_layout_caches(b.newLayout),
                                 icd_format_is_ds(b.image))
             \cup image_barriers_flags(gen, Tail(image_mem_barriers))

\* memory_barriers_flags() with a render cache flush for host writes
memory_barriers_flags_host_flush(gen, flush_flags, mem_barriers, image_mem_barriers) ==
    LET output_mask == access_union(mem_barriers, "srcAccessMask") \cup
                       access_union(image_mem_barriers, "srcAccessMask")
        input_mask == access_union(mem_barriers, "dstAccessMask") \cup
                      access_union(image_mem_barriers, "dstAccessMask")
    IN  flush_flags \cup image_barriers_flags(gen, image_mem_barriers) \cup
        (IF "HOST_WRITE" \in output_mask THEN {"RENDER_CACHE_FLUSH"} ELSE {}) \cup
        (IF "SHADER_WRITE" \in output_mask THEN {"DC_FLUSH"} ELSE {}) \cup
        (IF "COLOR_ATTACHMENT_WRITE" \in output_mask
         THEN {"RENDER_CACHE_FLUSH"} ELSE {}) \cup
        (IF "DEPTH_STENCIL_ATTACHMENT_WRITE" \in output_mask
         THEN {"DEPTH_CACHE_FLUSH"} ELSE {}) \cup
        (IF input_mask \cap {"SHADER_READ", "UNIFORM_READ"} # {}
         THEN {"TEXTURE_CACHE_INVALIDATE"} ELSE {}) \cup
        (IF "UNIFORM_READ" \in input_mask
         THEN {"CONSTANT_CACHE_INVALIDATE"} ELSE {}) \cup
        (IF "VERTEX_ATTRIBUTE_READ" \in input_mask
         THEN {"VF_CACHE_INVALIDATE"} ELSE {})

\* the flag word cmd_memory_barriers() hands to cmd_batch_flush()
memory_barriers_flags(gen, flush_flags, mem_barriers, image_mem_barriers) ==
    LET output_mask == access_union(mem_barriers, "srcAccessMask") \cup
                       access_union(image_mem_barriers, "srcAccessMask")
        input_mask == access_union(mem_barriers, "dstAccessMask") \cup
                      access_union(image_mem_barriers, "dstAccessMask")
    IN  flush_flags \cup image_barriers_flags(gen, image_mem_barriers) \cup
        (IF "SHADER_WRITE" \in output_mask THEN {"DC_FLUSH"} ELSE {}) \cup
        (IF "COLOR_ATTACHMENT_WRITE" \in output_mask
         THEN {"RENDER_CACHE_FLUSH"} ELSE {}) \cup
        (IF "DEPTH_STENCIL_ATTACHMENT_WRITE" \in output_mask
         THEN {"DEPTH_CACHE_FLUSH"} ELSE {}) \cup
        (IF input_mask \cap {"SHADER_READ", "UNIFORM_READ"} # {}
         THEN {"TEXTURE_CACHE_INVALIDATE"} ELSE {}) \cup
        (IF "UNIFORM_READ" \in input_mask
         THEN {"CONSTANT_CACHE_INVALIDATE"} ELSE {}) \cup
        (IF "VERTEX_ATTRIBUTE_READ" \in input_mask
         THEN {"VF_CACHE_INVALIDATE"} ELSE {})

\* cmd_memory_barriers() that flushes before it resolves
cmd_memory_barriers_flush_first(c, flush_flags, mem_barriers, image_mem_barriers) ==
    image_barriers_resolve(
        cmd_batch_flush(c, memory_barriers_flags(c.gen, flush_flags, mem_barriers,
                                                 image_mem_barriers)),
        image_mem_barriers)

\* mem_barriers holds the memory barriers followed by the buffer barriers
cmd_memory_barriers(c, flush_flags, mem_barriers, image_mem_barriers) ==
    cmd_batch_flush(image_barriers_resolve(c, image_mem_barriers),
                    memory_barriers_flags(c.gen, flush_flags, mem_barriers,
                                          image_mem_barriers))

(* --------------------------------------------------------------- draw path *)

\* the view of an RT slot: NULL unless the subpass has the colour attachment
\* and the attachment is one of the framebuffer's views
rt_view_present(c, slot) ==
    /\ slot.index < c.render_pass.color_count
    /\ c.render_pass.color_indices[slot.index + 1] < c.fb.view_count

\* need_null_view of the slot loop of emit_binding_table()
need_null_view(c, slot) ==
    ~ \/ slot.type = "RT" /\ rt_view_present(c, slot)
      \/ slot.type = "SURFACE" /\ DescRegion[slot.desc].mem # NoBo

\* the surface state the slot loop writes for the slot: the view of the
\* attachment, the descriptor, or a null view
slot_surface_write(c, slot) ==
    CASE slot.type = "RT" /\ rt_view_present(c, slot) ->
             reserve_and_reloc(
                 cmd_surface_write(c, "SURFACE",
                     GEN6_ALIGNMENT_SURFACE_STATE, SurfaceStateLen(c.gen),
                     c.fb.views[c.render_pass.color_indices[
                                    slot.index + 1] + 1].img),
                 "SURFACE",
                 <<c.fb.views[c.render_pass.color_indices[
                                  slot.index + 1] + 1].img>>, TRUE)
      [] slot.type = "SURFACE" /\ DescRegion[slot.desc].mem # NoBo ->
             reserve_and_reloc(
                 cmd_surface_write(c, "SURFACE",
                     GEN6_ALIGNMENT_SURFACE_STATE, SurfaceStateLen(c.gen),
                     slot.desc),
                 "SURFACE", <<DescRegion[slot.desc].mem>>, TRUE)
      [] OTHER ->
             cmd_surface_write(
                 debug_check(c, slot.type \in {"RT", "SURFACE", "UNUSED"}),
                 "SURFACE", GEN6_ALIGNMENT_SURFACE_STATE,
                 SurfaceStateLen(c.gen), "null_view")

\* the slot loop that writes no null view: the entry of a slot without a
\* resource is left as it was
emit_binding_table_slot_hole(c, slot) ==
    IF ~Recording(c) THEN c
    ELSE IF need_null_view(c, slot)
    THEN [c EXCEPT !.binding_table = Append(@, 0)]
    ELSE Then(Then(c, LAMBDA d : slot_surface_write(d, slot)),
              LAMBDA d :
                  [d EXCEPT !.binding_table =
                       Append(@, surface_offset(c, GEN6_ALIGNMENT_SURFACE_STATE)
                                     - c.surface_sba)])

\* one pass of the slot loop of emit_binding_table(): the surface state of the
\* slot is written and its offset goes to binding_table[]
emit_binding_table_slot(c, slot) ==
    IF ~Recording(c) THEN c
    ELSE Then(Then(c, LAMBDA d : slot_surface_write(d, slot)),
              LAMBDA d :
                  [d EXCEPT !.binding_table =
                       Append(@, surface_offset(c, GEN6_ALIGNMENT_SURFACE_STATE)
                                     - c.surface_sba)])

\* the slot loop over slots[lo..hi]
RECURSIVE emit_binding_table_slots(_, _, _, _)
emit_binding_table_slots(c, slots, lo, hi) ==
    IF lo > hi THEN c
    ELSE IF lo = hi THEN emit_binding_table_slot(c, slots[lo])
    ELSE Then(Then(c,
             LAMBDA d : emit_binding_table_slots(d, slots, lo, (lo + hi) \div 2)),
             LAMBDA d : emit_binding_table_slots(d, slots, (lo + hi) \div 2 + 1, hi))

\* ARRAY_SIZE(binding_table)
MaxBindingTable == 256

\* the statements of emit_binding_table() after the slot loop; the value
\* returned goes to binding_tables[] of emit_shader_resources()
emit_binding_table_write(c, surface_count, stage) ==
    LET offset == surface_offset(c, GEN6_ALIGNMENT_BINDING_TABLE_STATE)
                      - c.surface_sba
    IN  IF ~Recording(c) THEN c
        ELSE debug_check(
                 [cmd_surface_write(c, "BINDING_TABLE",
                                    GEN6_ALIGNMENT_BINDING_TABLE_STATE,
                                    surface_count, c.binding_table)
                  EXCEPT !.binding_table = <<>>,
                         !.binding_tables[stage] = offset],
                 offset + 4 * surface_count <= BindingTableLimit)

emit_binding_table(c, rmap, stage) ==
    IF ~Recording(c) THEN c
    ELSE IF rmap_surface_count(rmap) = 0 THEN [c EXCEPT !.binding_tables[stage] = 0]
    ELSE Then(Then(Then(c,
             LAMBDA d :
                 IF rmap_surface_count(rmap) > MaxBindingTable /\ c.ndebug
                 \* the loop stores behind the local array
                 THEN [d EXCEPT !.status = "corrupt"]
                 ELSE debug_check(d, rmap_surface_count(rmap) <= MaxBindingTable)),
             LAMBDA d : emit_binding_table_slots(d, rmap.slots, 1,
                                                 rmap_surface_count(rmap))),
             LAMBDA d : emit_binding_table_write(d, rmap_surface_count(rmap), stage))

\* the pointer packets of emit_shader_resources()
emit_shader_pointers(c) ==
    LET by == "emit_shader_resources"
        ptr(d, op, offset) == cmd_batch_pointer(d, Packet(op, {}, NoBo, offset, by))
    IN  IF c.gen >= 700
        THEN cmd_batch_write(
                 ptr(ptr(ptr(ptr(ptr(c,
                     "3DSTATE_BINDING_TABLE_POINTERS_VS", <<c.binding_tables["vs"]>>),
                     "3DSTATE_BINDING_TABLE_POINTERS_HS", <<c.binding_tables["tcs"]>>),
                     "3DSTATE_BINDING_TABLE_POINTERS_DS", <<c.binding_tables["tes"]>>),
                     "3DSTATE_BINDING_TABLE_POINTERS_GS", <<c.binding_tables["gs"]>>),
                     "3DSTATE_BINDING_TABLE_POINTERS_PS", <<c.binding_tables["fs"]>>),
                 "3DSTATE_SAMPLER_STATE_POINTERS_x", by)
        ELSE cmd_batch_write(
                 ptr(debug_check(c, c.binding_tables["tcs"] = 0 /\
                                    c.binding_tables["tes"] = 0),
                     "3DSTATE_BINDING_TABLE_POINTERS",
                     <<c.binding_tables["vs"], c.binding_tables["gs"],
                       c.binding_tables["fs"]>>),
                 "3DSTATE_SAMPLER_STATE_POINTERS", by)

\* sampler states go to the state writer; the sampler pointers are not kept
emit_shader_resources(c) ==
    Then(Then(c,
         LAMBDA d :
             emit_binding_table(
                 emit_binding_table(
                     emit_binding_table(d, c.pipeline.rmaps["vs"], "vs"),
                     c.pipeline.rmaps["tcs"], "tcs"),
                 c.pipeline.rmaps["tes"], "tes")),
         LAMBDA d :
             emit_shader_pointers(
                 emit_binding_table(
                     emit_binding_table(d, c.pipeline.rmaps["gs"], "gs"),
                     c.pipeline.rmaps["fs"], "fs")))

gen6_add_scratch_space(c) ==
    reserve_and_reloc(c, "BATCH", <<"pipeline_bo">>, TRUE)

\* a shader state packet, with the scratch relocation when the stage has
\* per-thread scratch space
shader_state(c, op, stage, by) ==
    When(stage \in c.pipeline.scratch, gen6_add_scratch_space,
         cmd_batch_write(c, op, by))

gen6_3DSTATE_GS(c) == shader_state(c, "3DSTATE_GS", "gs", "gen6_3DSTATE_GS")

gen7_3DSTATE_GS(c) == shader_state(c, "3DSTATE_GS", "gs", "gen7_3DSTATE_GS")

gen6_3DSTATE_WM(c) == shader_state(c, "3DSTATE_WM", "fs", "gen6_3DSTATE_WM")

gen7_3DSTATE_PS(c) == shader_state(c, "3DSTATE_PS", "fs", "gen7_3DSTATE_PS")

gen6_3DSTATE_VS(c) == shader_state(c, "3DSTATE_VS", "vs", "gen6_3DSTATE_VS")

\* one pass of the vertex buffer loop
RECURSIVE vertex_buffer_relocs(_, _)
vertex_buffer_relocs(c, i) ==
    IF i >= c.pipeline.vb_count THEN c
    ELSE vertex_buffer_relocs(
             IF i \in c.vertex_buf
             THEN reserve_and_reloc(c, "BATCH", <<"vertex_bo", "vertex_bo">>, TRUE)
             ELSE c,
             i + 1)

gen6_3DSTATE_VERTEX_BUFFERS(c) ==
    IF c.pipeline.vb_count = 0 THEN c
    ELSE vertex_buffer_relocs(
             cmd_batch_write(c, "3DSTATE_VERTEX_BUFFERS",
                             "gen6_3DSTATE_VERTEX_BUFFERS"), 0)

gen6_3DSTATE_INDEX_BUFFER(c) ==
    reserve_and_reloc(cmd_batch_write(c, "3DSTATE_INDEX_BUFFER",
                                      "gen6_3DSTATE_INDEX_BUFFER"),
                      "BATCH", <<"index_bo", "index_bo">>, TRUE)

emit_msaa(c) ==
    IF ~c.render_pass_changed THEN c
    ELSE cmd_batch_write(cmd_wa_gen6_pre_multisample_depth_flush(c),
                         "3DSTATE_MULTISAMPLE", "emit_msaa")

emit_rt(c) ==
    IF ~c.render_pass_changed THEN c
    ELSE cmd_batch_write(cmd_wa_gen6_pre_depth_stall_write(c),
                         "3DSTATE_DRAWING_RECTANGLE", "emit_rt")

emit_ds(c) ==
    IF ~c.render_pass_changed THEN c
    ELSE LET view == IF c.render_pass.ds_index < c.render_pass.attachment_count
                     THEN c.fb.views[c.render_pass.ds_index + 1]
                     ELSE null_view
         IN  Then(Then(c, cmd_wa_gen6_pre_ds_flush),
                  LAMBDA d :
                      gen6_3DSTATE_CLEAR_PARAMS(
                          gen6_3DSTATE_HIER_DEPTH_BUFFER(
                              gen6_3DSTATE_STENCIL_BUFFER(
                                  gen6_3DSTATE_DEPTH_BUFFER(
                                      d, view, c.render_pass.ds_optimal),
                                  view, c.render_pass.ds_optimal),
                              view, c.render_pass.ds_optimal)))

\* shader kernels go to the instruction writer
emit_graphics_pipeline(c) ==
    LET wa == c.pipeline.wa_flags
    IN  Then(Then(c,
             LAMBDA d :
                 When("GEN7_PRE_VS_DEPTH_STALL_WRITE" \in wa,
                      cmd_wa_gen7_pre_vs_depth_stall_write,
                      When("GEN6_PRE_COMMAND_SCOREBOARD_STALL" \in wa,
                           cmd_wa_gen6_pre_command_scoreboard_stall,
                           When("GEN6_PRE_DEPTH_STALL_WRITE" \in wa,
                                cmd_wa_gen6_pre_depth_stall_write, d)))),
             LAMBDA d :
                 When("GEN7_POST_COMMAND_DEPTH_STALL" \in wa,
                      cmd_wa_gen7_post_command_depth_stall,
                      When("GEN7_POST_COMMAND_CS_STALL" \in wa,
                           cmd_wa_gen7_post_command_cs_stall,
                           cmd_batch_write(d, "pipeline_cmds",
                                           "emit_graphics_pipeline"))))

\* the fixed-function packets of emit_bounded_states(): cc, viewport and
\* push-constant states carry no relocation
emit_fixed_function_states(c) ==
    Either(c.gen >= 700,
        LAMBDA e :
            gen7_3DSTATE_PS(
                cmd_batch_write(
                    gen7_3DSTATE_GS(
                        cmd_batch_write(e, "gen7_cc_viewport_pcb",
                                        "emit_bounded_states")),
                    "3DSTATE_CLIP_SF_WM", "emit_bounded_states")),
        LAMBDA e :
            gen6_3DSTATE_WM(
                cmd_batch_write(
                    gen6_3DSTATE_GS(
                        cmd_batch_write(e, "gen6_cc_viewport_pcb",
                                        "emit_bounded_states")),
                    "3DSTATE_CLIP_SF", "emit_bounded_states")),
        c)

\* emit_bounded_states() with the resource bindings after the vertex buffers
\* and the vertex shader
emit_bounded_states_resources_last(c) ==
    Then(Then(Then(Then(c,
         LAMBDA d : emit_graphics_pipeline(emit_msaa(d))),
         LAMBDA d : emit_ds(emit_rt(d))),
         LAMBDA d : emit_fixed_function_states(d)),
         LAMBDA d : emit_shader_resources(
                        gen6_3DSTATE_VS(
                            gen6_3DSTATE_VERTEX_BUFFERS(
                                cmd_wa_gen6_pre_depth_stall_write(d)))))

emit_bounded_states(c) ==
    Then(Then(Then(Then(c,
         LAMBDA d : emit_graphics_pipeline(emit_msaa(d))),
         LAMBDA d : emit_ds(emit_rt(d))),
         LAMBDA d : emit_shader_resources(emit_fixed_function_states(d))),
         LAMBDA d : gen6_3DSTATE_VS(
                        gen6_3DSTATE_VERTEX_BUFFERS(
                            cmd_wa_gen6_pre_depth_stall_write(d))))

gen75_3DSTATE_VF(c) == cmd_batch_write(c, "3DSTATE_VF", "gen75_3DSTATE_VF")

\* the topologies the hardware can restart before gen7.5
RestartTopologies == {"POINTLIST", "LINELIST", "LINESTRIP", "TRILIST", "TRISTRIP"}

\* gen6_can_primitive_restart() with the rule of gen7.5 on every generation
gen6_can_primitive_restart_gen75(c) == c.pipeline.prim_type # "RECTLIST"

gen6_can_primitive_restart(c) ==
    IF c.gen >= 750 THEN c.pipeline.prim_type # "RECTLIST"
    ELSE IF c.pipeline.prim_type \notin RestartTopologies THEN FALSE
    ELSE CASE c.index_type = "UINT16" -> c.pipeline.primitive_restart_index # "0xffff"
           [] c.index_type = "UINT32" ->
                  c.pipeline.primitive_restart_index # "0xffffffff"
           [] OTHER -> FALSE

\* assert(!(p->primitive_restart && !gen6_can_primitive_restart(cmd)))
cmd_draw_restart_check(c) ==
    IF ~Recording(c) THEN c
    ELSE debug_check(c, ~(c.pipeline.primitive_restart
                          /\ ~gen6_can_primitive_restart(c)))

\* the sanity check of cmd_draw() on cmd_get_max_surface_write()
cmd_draw_sanity(c, surface_writer_used) ==
    debug_check(c, c.surface_used - surface_writer_used <=
                   cmd_get_max_surface_write(c.pipeline))

\* the end of cmd_draw() without the reset of the workaround flags
cmd_draw_end_keep_wa(c) ==
    IF ~Recording(c) THEN c
    ELSE When(c.nocache, cmd_batch_flush_all,
              [c EXCEPT !.draw_count = @ + 1,
                        !.render_pass_changed = FALSE])

\* the end of cmd_draw() that does not count the draw
cmd_draw_end_no_count(c) ==
    IF ~Recording(c) THEN c
    ELSE When(c.nocache, cmd_batch_flush_all,
              [c EXCEPT !.render_pass_changed = FALSE,
                        !.wa_flags = {}])

\* the statements of cmd_draw() after the primitive
cmd_draw_end(c) ==
    IF ~Recording(c) THEN c
    ELSE When(c.nocache, cmd_batch_flush_all,
              [c EXCEPT !.draw_count = @ + 1,
                        !.render_pass_changed = FALSE,
                        !.wa_flags = {}])

cmd_draw(c, indexed) ==
    IF ~Recording(c) THEN c
    ELSE Then(Then(Then(c, cmd_adjust_state_base_address),
             LAMBDA d : cmd_draw_sanity(emit_bounded_states(d), c.surface_used)),
             LAMBDA d :
                 cmd_draw_end(
                     Either(c.gen >= 700,
                         LAMBDA e : gen7_3DPRIMITIVE(e, "cmd_draw"),
                         LAMBDA e : gen6_3DPRIMITIVE(e, "cmd_draw"),
                         When(indexed,
                              LAMBDA e : gen6_3DSTATE_INDEX_BUFFER(
                                             When(c.gen >= 750, gen75_3DSTATE_VF,
                                                  cmd_draw_restart_check(e))),
                              d))))

cmd_exec(c, bo) ==
    LET c1 == debug_check(c, c.gen >= 750)
        c2 == cmd_batch_write(c1, "MI_BATCH_BUFFER_START", "cmd_exec")
    IN  cmd_batch_reloc(c2, bo)

(* -------------------------------------------------------------- queries, events *)

gen6_MI_STORE_REGISTER_MEM(c, bo) ==
    reserve_and_reloc(cmd_batch_write(c, "MI_STORE_REGISTER_MEM",
                                      "gen6_MI_STORE_REGISTER_MEM"),
                      "BATCH", <<bo>>, TRUE)

gen6_MI_STORE_DATA_IMM(c, bo) ==
    reserve_and_reloc(cmd_batch_write(c, "MI_STORE_DATA_IMM",
                                      "gen6_MI_STORE_DATA_IMM"),
                      "BATCH", <<bo>>, TRUE)

\* struct intel_query: type and, for pipeline statistics, regs[] (0: no register)
Query(type, regs) == [type |-> type, regs |-> regs]

RECURSIVE query_store_regs(_, _, _)
query_store_regs(c, regs, bo) ==
    IF regs = <<>> THEN c
    ELSE query_store_regs(
             IF Head(regs) # 0
             THEN gen6_MI_STORE_REGISTER_MEM(gen6_MI_STORE_REGISTER_MEM(c, bo), bo)
             ELSE gen6_MI_STORE_DATA_IMM(c, bo),
             Tail(regs), bo)

cmd_query_pipeline_statistics(c, query, bo) ==
    query_store_regs(cmd_batch_flush(c, {"CS_STALL"}), query.regs, bo)

\* vkCmdBeginQuery and vkCmdEndQuery differ in the offset only
vkCmdBeginQuery(c, query) ==
    CASE query.type = "OCCLUSION" -> cmd_batch_depth_count(c, "query_bo")
      [] query.type = "PIPELINE_STATISTICS" ->
             cmd_query_pipeline_statistics(c, query, "query_bo")
      [] OTHER -> cmd_fail(c, "VK_ERROR_VALIDATION_FAILED_EXT")

vkCmdEndQuery(c, query) ==
    CASE query.type = "OCCLUSION" -> cmd_batch_depth_count(c, "query_bo")
      [] query.type = "PIPELINE_STATISTICS" ->
             cmd_query_pipeline_statistics(c, query, "query_bo")
      [] OTHER -> cmd_fail(c, "VK_ERROR_VALIDATION_FAILED_EXT")

cmd_write_event_value(c, stageMask) ==
    cmd_batch_immediate(c, IF stageMask \ {"HOST"} # {} THEN {"CS_STALL"} ELSE {},
                        "event_bo")

vkCmdSetEvent(c, stageMask) == cmd_write_event_value(c, stageMask)

vkCmdResetEvent(c, stageMask) == cmd_write_event_value(c, stageMask)

vkCmdWriteTimestamp(c, pipelineStage) ==
    IF pipelineStage \ {"HOST"} # {} /\ pipelineStage # {"TOP_OF_PIPE"}
    THEN cmd_batch_timestamp(c, "query_bo")
    ELSE gen6_MI_STORE_REGISTER_MEM(gen6_MI_STORE_REGISTER_MEM(c, "query_bo"),
                                    "query_bo")

(* ------------------------------------------------------------ entry points *)

\* vkCmdWaitEvents() that does not ask for the stall
vkCmdWaitEvents_no_stall(c, mem_barriers, image_mem_barriers) ==
    cmd_memory_barriers(c, {}, mem_barriers, image_mem_barriers)

vkCmdWaitEvents(c, mem_barriers, image_mem_barriers) ==
    cmd_memory_barriers(c, {"CS_STALL"}, mem_barriers, image_mem_barriers)

\* the flags vkCmdPipelineBarrier() starts from
barrier_stage_flags(srcStageMask, dstStageMask) ==
    IF srcStageMask \ {"HOST"} # {} \/ dstStageMask \ {"HOST"} # {}
    THEN {"CS_STALL"} ELSE {}

vkCmdPipelineBarrier(c, srcStageMask, dstStageMask, mem_barriers, image_barriers) ==
    cmd_memory_barriers(c, barrier_stage_flags(srcStageMask, dstStageMask),
                        mem_barriers, image_barriers)

\* cmd_bind_dynamic_state() and cmd_alloc_dset_data() touch neither the
\* writers nor the relocation table
cmd_bind_graphics_pipeline(c, pipeline) ==
    IF Recording(c) THEN [c EXCEPT !.pipeline = pipeline] ELSE c

vkCmdBindPipeline(c, pipeline) == cmd_bind_graphics_pipeline(c, pipeline)

vkCmdBindVertexBuffers(c, firstBinding, bindingCount) ==
    IF Recording(c)
    THEN [c EXCEPT !.vertex_buf =
                       @ \cup {firstBinding + i : i \in 0..(bindingCount - 1)}]
    ELSE c

vkCmdBindIndexBuffer(c, indexType) ==
    IF Recording(c) THEN [c EXCEPT !.index_buf = TRUE, !.index_type = indexType]
    ELSE c

vkCmdDraw(c) == cmd_draw(c, FALSE)

vkCmdDrawIndexed(c) == cmd_draw(c, TRUE)

cmd_begin_render_pass(c, rp, fb, contents) ==
    IF Recording(c)
    THEN [c EXCEPT !.render_pass_changed = TRUE,
                   !.render_pass = rp,
                   !.fb = fb,
                   !.render_pass_contents = contents]
    ELSE c

\* the clear loop over the attachments of the pass
RECURSIVE begin_render_pass_clears(_, _, _, _)
begin_render_pass_clears(c, rp, fb, i) ==
    IF i > rp.attachment_count THEN c
    ELSE LET view == fb.views[i]
         IN  begin_render_pass_clears(
                 IF view.is_rt /\ rp.clear_on_load[i]
                 THEN cmd_meta_clear_color_image(c, view.img)
                 ELSE c,
                 rp, fb, i + 1)

vkCmdBeginRenderPass(c, rp, fb, contents) ==
    LET c1 == debug_check(c, rp.attachment_count = fb.view_count)
    IN  begin_render_pass_clears(cmd_begin_render_pass(c1, rp, fb, contents),
                                 rp, fb, 1)

cmd_end_render_pass(c) ==
    IF Recording(c)
    THEN [c EXCEPT !.render_pass = NoRenderPass, !.fb = NoFb]
    ELSE c

vkCmdEndRenderPass(c) == cmd_end_render_pass(c)

RECURSIVE exec_secondaries(_, _)
exec_secondaries(c, secondaries) ==
    IF secondaries = <<>> THEN c
    ELSE exec_secondaries(cmd_exec(c, Head(secondaries)), Tail(secondaries))

vkCmdExecuteCommands(c, secondaries) ==
    When(secondaries # <<>>, cmd_batch_state_base_address,
         exec_secondaries(
             debug_check(c, c.render_pass # NoRenderPass /\
                            c.render_pass_contents = "SECONDARY_COMMAND_BUFFERS"),
             secondaries))

(* ------------------------------------------------------------------ states *)

\* a command buffer before intel_cmd_begin()
FreshCmd(gen, ndebug, nocache, reloc_count) ==
    [status |-> "recording", ndebug |-> ndebug, nocache |-> nocache, gen |-> gen,
     result |-> "VK_SUCCESS",
     draw_count |-> 0, wa_flags |-> {}, meta |-> NoMeta,
     pipeline |-> NoPipeline, vertex_buf |-> {}, index_buf |-> FALSE,
     index_type |-> "UINT16",
     render_pass |-> NoRenderPass, fb |-> NoFb,
     render_pass_contents |-> "INLINE", render_pass_changed |-> FALSE,
     reloc_used |-> 0, reloc_count |-> reloc_count,
     relocs |-> [i \in 0..(reloc_count - 1) |-> NoReloc],
     reloc_excess |-> 0, reloc_overflow |-> FALSE,
     surface_used |-> 0, surface_sba |-> 0, surface |-> <<>>,
     binding_table |-> <<>>,
     binding_tables |-> [s \in {Stages[i] : i \in 1..Len(Stages)} |-> 0],
     batch |-> <<>>,
     wa_emitted |-> [w \in WaNames |-> 0], wa_in_draw |-> [w \in WaNames |-> 0],
     sba_in_batch |-> 0, nops |-> 0]

\* recording begins: the initial base-address state
BeginCmd(gen, ndebug, nocache, reloc_count) ==
    cmd_batch_begin(FreshCmd(gen, ndebug, nocache, reloc_count))

NoCall == [name |-> "intel_cmd_begin", arg |-> <<>>]

\* an entry point starts: the windows on the batch and the surface writer
\* are emptied
Enter(c) == [c EXCEPT !.batch = <<>>, !.surface = <<>>, !.nops = @ + 1]

Record(name, arg, c) ==
    /\ cmd' = c
    /\ call' = [name |-> name, arg |-> arg]

InRenderPass(c) == c.render_pass # NoRenderPass

CanDraw(c) == Recording(c) /\ c.pipeline # NoPipeline /\ InRenderPass(c)

(* ------------------------------------------------------- recorded objects *)

\* the workaround flags pipeline creation sets on a generation
PipelineWaFlags(gen) ==
    IF gen >= 700
    THEN {"GEN6_PRE_DEPTH_STALL_WRITE", "GEN7_PRE_VS_DEPTH_STALL_WRITE",
          "GEN7_POST_COMMAND_CS_STALL", "GEN7_POST_COMMAND_DEPTH_STALL"}
    ELSE {"GEN6_PRE_DEPTH_STALL_WRITE", "GEN6_PRE_COMMAND_SCOREBOARD_STALL"}

\* a fragment shader with a bound and an unbound colour attachment, a set and
\* an unset descriptor and an unused slot
SmallRmap ==
    Rmap(2, 1, 1, 1,
         << Slot("RT", 0, NoDesc), Slot("RT", 1, NoDesc),
            Slot("SURFACE", 0, "desc_img"), Slot("SURFACE", 0, "desc_unset"),
            Slot("UNUSED", 0, NoDesc) >>)

pipe_wa(gen) == Pipeline("pipe_wa", PipelineWaFlags(gen), FsRmaps(SmallRmap), 1, {"vs"})

pipe_plain == Pipeline("pipe_plain", {}, FsRmaps(SmallRmap), 0, {})

\* a pipeline with one vertex buffer binding
pipe_vertex == Pipeline("pipe_vertex", {}, FsRmaps(SmallRmap), 1, {})

\* one colour and one depth/stencil attachment; the passes of the model clear
\* colour attachments only
rp_plain == RenderPass("rp_plain", <<FALSE, FALSE>>, <<0>>, 1, TRUE)

rp_clear == RenderPass("rp_clear", <<TRUE, FALSE>>, <<0>>, 1, TRUE)

fb_color_ds == Fb(<<color_view, ds_view>>)

\* the passes and the subpass contents vkCmdBeginRenderPass is recorded with
ClearAndPlainPasses == {rp_clear, rp_plain}

PlainPasses == {rp_plain}

InlineContents == {"INLINE"}

AnyContents == {"INLINE", "SECONDARY_COMMAND_BUFFERS"}

HostStageMasks == {{"HOST"}}

PlainPipelines == {pipe_plain}

VertexPipelines == {pipe_vertex}

HostTransferBits == {"HOST_READ", "HOST_WRITE", "TRANSFER_READ", "TRANSFER_WRITE"}

SrcMasks ==
    SUBSET {"HOST_WRITE", "TRANSFER_WRITE", "SHADER_WRITE",
            "COLOR_ATTACHMENT_WRITE", "DEPTH_STENCIL_ATTACHMENT_WRITE"}
    \cup {{"MEMORY_WRITE"}}

DstMasks ==
    SUBSET {"HOST_READ", "TRANSFER_READ", "SHADER_READ", "UNIFORM_READ",
            "VERTEX_ATTRIBUTE_READ"}
    \cup {{"INDEX_READ"}, {"MEMORY_READ"}}

StageMasks == {{"HOST"}, {"FRAGMENT_SHADER"}}

\* the layouts an image of the kind can be in
ImageLayouts(img) ==
    IF icd_format_is_ds(img)
    THEN Layouts \ {"COLOR_ATTACHMENT_OPTIMAL", "PRESENT_SRC_KHR"}
    ELSE Layouts \ {"DEPTH_STENCIL_ATTACHMENT_OPTIMAL",
                    "DEPTH_STENCIL_READ_ONLY_OPTIMAL"}

ImageBarriers ==
    UNION {{ImageBarrier({}, {}, img, old, new) :
               old \in ImageLayouts(img),
               new \in ImageLayouts(img) \ {"UNDEFINED", "PREINITIALIZED"}} :
           img \in Images}

\* image barriers that go with a second one in the same call
PairedImageBarriers ==
    {ImageBarrier({}, {}, "ds_img", "GENERAL", "DEPTH_STENCIL_ATTACHMENT_OPTIMAL"),
     ImageBarrier({}, {}, "ds_img", "TRANSFER_DST_OPTIMAL",
                  "DEPTH_STENCIL_READ_ONLY_OPTIMAL"),
     ImageBarrier({}, {}, "ds_img", "DEPTH_STENCIL_ATTACHMENT_OPTIMAL",
                  "SHADER_READ_ONLY_OPTIMAL"),
     ImageBarrier({"COLOR_ATTACHMENT_WRITE"}, {"SHADER_READ"}, "color_img",
                  "COLOR_ATTACHMENT_OPTIMAL", "SHADER_READ_ONLY_OPTIMAL"),
     ImageBarrier({"HOST_WRITE"}, {"TRANSFER_READ"}, "color_img",
                  "UNDEFINED", "TRANSFER_SRC_OPTIMAL")}

\* the barrier lists of one call: memory barriers alone, image barriers
\* alone, and both
BarrierArgs ==
    {[mem |-> <<MemBarrier(src, dst)>>, img |-> <<>>] :
        src \in SrcMasks, dst \in DstMasks}
    \cup {[mem |-> <<>>, img |-> <<>>]}
    \cup {[mem |-> <<>>, img |-> <<b>>] : b \in ImageBarriers}
    \cup {[mem |-> <<>>, img |-> <<a, b>>] :
             a \in PairedImageBarriers, b \in PairedImageBarriers}
    \cup {[mem |-> <<MemBarrier({"HOST_WRITE"}, {"HOST_READ"}),
                     MemBarrier({"TRANSFER_WRITE"}, {})>>,
           img |-> <<b>>] : b \in PairedImageBarriers}

\* what call keeps of a barrier call: the flags it starts from, the flag word
\* handed to cmd_batch_flush(), and what its access masks consist of
BarrierCall(gen, flush_flags, args) ==
    LET access == access_union(args.mem, "srcAccessMask") \cup
                  access_union(args.mem, "dstAccessMask") \cup
                  access_union(args.img, "srcAccessMask") \cup
                  access_union(args.img, "dstAccessMask")
    IN  [stage_flags |-> flush_flags,
         flags |-> memory_barriers_flags(gen, flush_flags, args.mem, args.img),
         images |-> Len(args.img),
         host_transfer_only |-> access \subseteq HostTransferBits,
         host_write_only |-> args.mem = <<MemBarrier({"HOST_WRITE"}, {})>>]

\* the barrier lists used where several calls follow one another
SequenceBarrierArgs ==
    {[mem |-> <<>>, img |-> <<>>],
     [mem |-> <<MemBarrier({"HOST_WRITE"}, {})>>, img |-> <<>>],
     [mem |-> <<MemBarrier({"COLOR_ATTACHMENT_WRITE"}, {"SHADER_READ"})>>,
      img |-> <<>>],
     [mem |-> <<>>,
      img |-> <<ImageBarrier({}, {}, "ds_img", "GENERAL",
                             "DEPTH_STENCIL_READ_ONLY_OPTIMAL")>>],
     [mem |-> <<>>,
      img |-> <<ImageBarrier({}, {}, "ds_img", "UNDEFINED",
                             "DEPTH_STENCIL_ATTACHMENT_OPTIMAL")>>]}
    \cup {[mem |-> <<>>, img |-> <<a, b>>] :
             a \in {b \in PairedImageBarriers : b.oldLayout = "GENERAL"},
             b \in {b \in PairedImageBarriers :
                        b.image = "ds_img" /\ b.oldLayout # "GENERAL"}}

(* ----------------------------------------------------------------- actions *)

PipelineBarrier(max, srcs, dsts, barriers) ==
    /\ Recording(cmd) /\ cmd.nops < max
    /\ \E src \in srcs, dst \in dsts, args \in barriers :
           Record("vkCmdPipelineBarrier",
                  BarrierCall(cmd.gen, barrier_stage_flags(src, dst), args),
                  vkCmdPipelineBarrier(Enter(cmd), src, dst, args.mem, args.img))

WaitEvents(max, barriers) ==
    /\ Recording(cmd) /\ cmd.nops < max
    /\ \E args \in barriers :
           Record("vkCmdWaitEvents",
                  BarrierCall(cmd.gen, {"CS_STALL"}, args),
                  vkCmdWaitEvents(Enter(cmd), args.mem, args.img))

BindPipeline(max, pipelines) ==
    /\ Recording(cmd) /\ cmd.nops < max
    /\ \E p \in pipelines :
           Record("vkCmdBindPipeline", p.name, vkCmdBindPipeline(Enter(cmd), p))

BeginRenderPass(max, passes, subpass_contents) ==
    /\ Recording(cmd) /\ cmd.nops < max
    /\ ~InRenderPass(cmd)
    /\ \E rp \in passes, contents \in subpass_contents :
           Record("vkCmdBeginRenderPass", rp.name,
                  vkCmdBeginRenderPass(Enter(cmd), rp, fb_color_ds, contents))

EndRenderPass(max) ==
    /\ Recording(cmd) /\ cmd.nops < max
    /\ InRenderPass(cmd)
    /\ Record("vkCmdEndRenderPass", <<>>, vkCmdEndRenderPass(Enter(cmd)))

Draw(max) ==
    /\ CanDraw(cmd) /\ cmd.nops < max
    /\ Record("vkCmdDraw", <<>>, vkCmdDraw(Enter(cmd)))

(* ------------------------------------ specification: sequences with barriers *)

\* entry points recorded in one command buffer of the barrier specification
MaxBarrierOps == 4

InitBarrier ==
    /\ \E gen \in Gens, ndebug \in BOOLEAN, nocache \in BOOLEAN :
           cmd = BeginCmd(gen, ndebug, nocache, LargeRelocCount)
    /\ call = NoCall

BarrierBeginRenderPass ==
    BeginRenderPass(MaxBarrierOps, ClearAndPlainPasses, InlineContents)

BarrierBindPipeline == BindPipeline(MaxBarrierOps, {pipe_wa(cmd.gen)})

BarrierDraw == Draw(MaxBarrierOps)

BarrierPipelineBarrier ==
    PipelineBarrier(MaxBarrierOps, StageMasks, HostStageMasks, SequenceBarrierArgs)

BarrierWaitEvents == WaitEvents(MaxBarrierOps, SequenceBarrierArgs)

NextBarrier ==
    \/ BarrierBeginRenderPass
    \/ BarrierBindPipeline
    \/ BarrierDraw
    \/ BarrierPipelineBarrier
    \/ BarrierWaitEvents

SpecBarrier == InitBarrier /\ [][NextBarrier]_vars

(* ------------------------- specification: one barrier call, every argument *)

\* entry points recorded in one command buffer of the flag specification
MaxFlagOps == 3

\* the arguments of the barrier call that is to come
PendingBarrier(src, dst, args) ==
    [name |-> "pending", arg |-> [src |-> src, dst |-> dst, args |-> args]]

InitFlags ==
    /\ \E gen \in Gens, ndebug \in BOOLEAN :
           cmd = BeginCmd(gen, ndebug, FALSE, LargeRelocCount)
    /\ \E src \in StageMasks, dst \in StageMasks, args \in BarrierArgs :
           call = PendingBarrier(src, dst, args)

FlagsBeginRenderPass ==
    /\ Recording(cmd) /\ cmd.nops < MaxFlagOps
    /\ call.name = "pending"
    /\ ~InRenderPass(cmd)
    /\ cmd' = vkCmdBeginRenderPass(Enter(cmd), rp_clear, fb_color_ds, "INLINE")
    /\ UNCHANGED call

FlagsPipelineBarrier ==
    /\ Recording(cmd) /\ cmd.nops < MaxFlagOps
    /\ call.name = "pending"
    /\ Record("vkCmdPipelineBarrier",
              BarrierCall(cmd.gen, barrier_stage_flags(call.arg.src, call.arg.dst),
                          call.arg.args),
              vkCmdPipelineBarrier(Enter(cmd), call.arg.src, call.arg.dst,
                                   call.arg.args.mem, call.arg.args.img))

FlagsWaitEvents ==
    /\ Recording(cmd) /\ cmd.nops < MaxFlagOps
    /\ call.name = "pending"
    /\ Record("vkCmdWaitEvents",
              BarrierCall(cmd.gen, {"CS_STALL"}, call.arg.args),
              vkCmdWaitEvents(Enter(cmd), call.arg.args.mem, call.arg.args.img))

NextFlags ==
    \/ FlagsBeginRenderPass
    \/ FlagsPipelineBarrier
    \/ FlagsWaitEvents

SpecFlags == InitFlags /\ [][NextFlags]_vars

(* ------------------------------------------------------------------ claims *)

IsBarrierCall == call.name \in {"vkCmdPipelineBarrier", "vkCmdWaitEvents"}

\* positions in the batch window of the packets a function wrote
PacketsBy(by) == {i \in 1..Len(cmd.batch) : cmd.batch[i].by = by}

Primitives == {i \in 1..Len(cmd.batch) : cmd.batch[i].op = "3DPRIMITIVE"}

StallPackets ==
    {i \in 1..Len(cmd.batch) :
        cmd.batch[i].op = "PIPE_CONTROL" /\ "CS_STALL" \in cmd.batch[i].dw1}

\* C1: every PIPE_CONTROL a pipeline barrier or a wait-events call emits with
\* CS_STALL set carries a render-cache flush, a depth-cache flush, a pixel
\* scoreboard stall or a depth stall; when the flag word handed to
\* cmd_batch_flush() has CS_STALL and none of them, the packet emitted is that
\* word with PIXEL_SCOREBOARD_STALL added.
C1_StallHasCompanion ==
    (IsBarrierCall /\ Recording(cmd)) =>
        /\ \A i \in StallPackets : cmd.batch[i].dw1 \cap CompanionBits # {}
        /\ ("CS_STALL" \in call.arg.flags /\ call.arg.flags \cap CompanionBits = {}
            /\ cmd.draw_count > 0) =>
               /\ cmd.batch # <<>>
               /\ cmd.batch[Len(cmd.batch)].by = "cmd_batch_flush"
               /\ cmd.batch[Len(cmd.batch)].dw1 =
                      call.arg.flags \cup {"PIXEL_SCOREBOARD_STALL"}

\* a barrier whose flag word was CS_STALL | TEXTURE_CACHE_INVALIDATE got the
\* scoreboard stall added
C1_Witness ==
    /\ IsBarrierCall /\ Recording(cmd)
    /\ call.arg.flags = {"CS_STALL", "TEXTURE_CACHE_INVALIDATE"}
    /\ cmd.batch # <<>>
    /\ cmd.batch[Len(cmd.batch)].dw1 =
           {"CS_STALL", "TEXTURE_CACHE_INVALIDATE", "PIXEL_SCOREBOARD_STALL"}


\* C10: access masks made only of host-read, host-write, transfer-read and
\* transfer-write bits add nothing to the flag word of a barrier call and no
\* packet of the call carries a flush or an invalidate bit; a pipeline barrier
\* between host stages whose only content is the memory barrier
\* (HOST_WRITE, 0) computes the flag word zero and emits nothing.
C10_HostAccessNoFlush ==
    (IsBarrierCall /\ call.arg.images = 0 /\ call.arg.host_transfer_only) =>
        /\ call.arg.flags = call.arg.stage_flags
        /\ call.arg.flags \cap (FlushBits \cup InvalidateBits) = {}
        /\ \A i \in 1..Len(cmd.batch) :
               cmd.batch[i].dw1 \cap (FlushBits \cup InvalidateBits) = {}
        /\ (call.arg.host_write_only /\ call.arg.stage_flags = {}) =>
               /\ call.arg.flags = {}
               /\ cmd.batch = <<>> /\ cmd.surface = <<>>

\* the (HOST_WRITE, 0) barrier recorded after a draw left the batch alone
C10_Witness ==
    /\ call.name = "vkCmdPipelineBarrier" /\ Recording(cmd)
    /\ call.arg.host_write_only /\ call.arg.stage_flags = {}
    /\ cmd.draw_count > 0
    /\ cmd.batch = <<>>


\* the command buffer without the per-call windows and the call counter
CoreState(c) == [c EXCEPT !.batch = <<>>, !.surface = <<>>, !.nops = 0]

\* a step that records a barrier call for which the claimed no-op condition
\* holds: the computed flag word is zero, or no draw has occurred
BarrierNoOpCase ==
    /\ call'.name \in {"vkCmdPipelineBarrier", "vkCmdWaitEvents"}
    /\ (call'.arg.flags = {} \/ cmd.draw_count = 0)

C9_ResolveBeforeFlush ==
    (IsBarrierCall /\ Recording(cmd) /\ Primitives # {}) =>
        /\ call.arg.flags # {} =>
               /\ cmd.batch[Len(cmd.batch)].by = "cmd_batch_flush"
               /\ call.arg.flags \subseteq cmd.batch[Len(cmd.batch)].dw1
               /\ \A i \in Primitives : i < Len(cmd.batch)
        /\ ~cmd.nocache =>
               /\ Cardinality(PacketsBy("cmd_batch_flush")) <= 1
               /\ \A i \in Primitives, j \in PacketsBy("cmd_batch_flush") : i < j

\* two resolve draws followed by the flush packet
C9_Witness ==
    /\ IsBarrierCall /\ Recording(cmd) /\ ~cmd.nocache
    /\ Cardinality(Primitives) = 2
    /\ Cardinality(PacketsBy("cmd_batch_flush")) = 1
    /\ \A i \in Primitives : i < Len(cmd.batch)


(* --------- specification: a small relocation table and secondary buffers *)

\* entry points recorded in one command buffer of the relocation specification
MaxRelocOps == 4

Queries == {Query("OCCLUSION", <<>>), Query("PIPELINE_STATISTICS", <<1, 0>>),
            Query("TIMESTAMP", <<>>)}

InitReloc ==
    /\ \E gen \in Gens, ndebug \in BOOLEAN :
           cmd = BeginCmd(gen, ndebug, FALSE, SmallRelocCount)
    /\ call = NoCall

RelocBeginRenderPass ==
    BeginRenderPass(MaxRelocOps, PlainPasses, AnyContents)

RelocBindPipeline == BindPipeline(MaxRelocOps, PlainPipelines)

RelocDraw == Draw(MaxRelocOps)

RelocExecuteCommands ==
    /\ Recording(cmd) /\ cmd.nops < MaxRelocOps
    /\ InRenderPass(cmd)
    /\ cmd.render_pass_contents = "SECONDARY_COMMAND_BUFFERS"
    /\ \E secondaries \in {<<>>, <<"secondary_a">>, <<"secondary_a", "secondary_b">>} :
           Record("vkCmdExecuteCommands", secondaries,
                  vkCmdExecuteCommands(Enter(cmd), secondaries))

RelocBeginQuery ==
    /\ Recording(cmd) /\ cmd.nops < MaxRelocOps
    /\ \E query \in Queries :
           Record("vkCmdBeginQuery", query.regs, vkCmdBeginQuery(Enter(cmd), query))

RelocEndQuery ==
    /\ Recording(cmd) /\ cmd.nops < MaxRelocOps
    /\ \E query \in Queries :
           Record("vkCmdEndQuery", query.regs, vkCmdEndQuery(Enter(cmd), query))

RelocSetEvent ==
    /\ Recording(cmd) /\ cmd.nops < MaxRelocOps
    /\ \E stageMask \in StageMasks :
           Record("vkCmdSetEvent", <<>>, vkCmdSetEvent(Enter(cmd), stageMask))

RelocWriteTimestamp ==
    /\ Recording(cmd) /\ cmd.nops < MaxRelocOps
    /\ \E stage \in {{"TOP_OF_PIPE"}, {"FRAGMENT_SHADER"}} :
           Record("vkCmdWriteTimestamp", <<>>,
                  vkCmdWriteTimestamp(Enter(cmd), stage))

NextReloc ==
    \/ RelocBeginRenderPass
    \/ RelocBindPipeline
    \/ RelocDraw
    \/ RelocExecuteCommands
    \/ RelocBeginQuery
    \/ RelocEndQuery
    \/ RelocSetEvent
    \/ RelocWriteTimestamp

SpecReloc == InitReloc /\ [][NextReloc]_vars


\* C2 as stated: the relocation entries added so far never outnumber the sum
\* of the lengths passed to cmd_reserve_reloc().
C2_AddedWithinReserved == cmd.reloc_excess <= 0

\* C6 as stated: reloc_used never exceeds reloc_count and no relocation is
\* stored behind the table.
C6_RelocWithinTable ==
    /\ cmd.reloc_used <= cmd.reloc_count
    /\ cmd.status # "corrupt"

\* C7 as stated: once cmd_reserve_reloc() has failed, no relocation entry is
\* appended or overwritten.
C7_NoAdditionAfterFailure ==
    [][cmd.reloc_overflow =>
           /\ cmd'.relocs = cmd.relocs
           /\ cmd'.reloc_used = cmd.reloc_used]_vars

\* C7: once cmd_reserve_reloc() has failed the command buffer keeps a failure
\* code: the result is never VK_SUCCESS again.
C7_FailureCodeKept == cmd.reloc_overflow => cmd.result # "VK_SUCCESS"

\* after the failure recording went on and stored a relocation over the first
\* entry of the table, which intel_cmd_begin() had written
C7_Witness ==
    /\ cmd.reloc_overflow /\ Recording(cmd)
    /\ cmd.result = "VK_ERROR_VALIDATION_FAILED_EXT"
    /\ cmd.relocs[0] # Reloc("BATCH", "WRITER_SURFACE")


(* ------------------------------------------- specification: runs of draws *)

\* entry points recorded in one command buffer of the draw specification
MaxDrawOps == 5

IsDrawCall == call.name \in {"vkCmdDraw", "vkCmdDrawIndexed"}

\* the draws recorded back to back up to the last entry point
DrawsInRun == IF IsDrawCall THEN call.arg ELSE 0

InitDraw ==
    /\ \E gen \in Gens, ndebug \in BOOLEAN, nocache \in BOOLEAN :
           cmd = BeginCmd(gen, ndebug, nocache, LargeRelocCount)
    /\ call = NoCall

DrawBeginRenderPass == BeginRenderPass(MaxDrawOps, ClearAndPlainPasses, InlineContents)

DrawBindPipeline == BindPipeline(MaxDrawOps, {pipe_wa(cmd.gen), pipe_plain})

DrawBindIndexBuffer ==
    /\ Recording(cmd) /\ cmd.nops < MaxDrawOps
    /\ ~cmd.index_buf
    /\ Record("vkCmdBindIndexBuffer", <<>>, vkCmdBindIndexBuffer(Enter(cmd), "UINT16"))

DrawDraw ==
    /\ CanDraw(cmd) /\ cmd.nops < MaxDrawOps
    /\ Record("vkCmdDraw", DrawsInRun + 1, vkCmdDraw(Enter(cmd)))

DrawDrawIndexed ==
    /\ CanDraw(cmd) /\ cmd.nops < MaxDrawOps
    /\ cmd.index_buf
    /\ Record("vkCmdDrawIndexed", DrawsInRun + 1, vkCmdDrawIndexed(Enter(cmd)))

NextDraw ==
    \/ DrawBeginRenderPass
    \/ DrawBindPipeline
    \/ DrawBindIndexBuffer
    \/ DrawDraw
    \/ DrawDrawIndexed

SpecDraw == InitDraw /\ [][NextDraw]_vars

\* the workaround function a pipeline flag makes the draw call
WaFunction ==
    [f \in PipelineWaFlags(600) \cup PipelineWaFlags(700) |->
        CASE f = "GEN6_PRE_DEPTH_STALL_WRITE" -> "cmd_wa_gen6_pre_depth_stall_write"
          [] f = "GEN6_PRE_COMMAND_SCOREBOARD_STALL" ->
                 "cmd_wa_gen6_pre_command_scoreboard_stall"
          [] f = "GEN7_PRE_VS_DEPTH_STALL_WRITE" -> "cmd_wa_gen7_pre_vs_depth_stall_write"
          [] f = "GEN7_POST_COMMAND_CS_STALL" -> "cmd_wa_gen7_post_command_cs_stall"
          [] f = "GEN7_POST_COMMAND_DEPTH_STALL" ->
                 "cmd_wa_gen7_post_command_depth_stall"]

\* every packet of the workaround is in the packets of the call, and none twice
EmittedOnce(w) ==
    /\ PacketsBy(w) # {}
    /\ \A i, j \in PacketsBy(w) : cmd.batch[i].dw1 = cmd.batch[j].dw1 => i = j

\* C3 as claimed: in every draw recorded with a workaround-triggering pipeline
\* each workaround packet of the pipeline appears exactly once, the first draw
\* included
C3_OncePerDraw ==
    (IsDrawCall /\ Recording(cmd)) =>
        \A f \in cmd.pipeline.wa_flags : EmittedOnce(WaFunction[f])

\* C3: in the second and every later draw of a run of draws recorded back to
\* back each workaround packet of the pipeline appears exactly once
C3_OncePerFollowingDraw ==
    (IsDrawCall /\ Recording(cmd) /\ call.arg >= 2) =>
        \A f \in cmd.pipeline.wa_flags : EmittedOnce(WaFunction[f])

C3_Witness ==
    /\ call.name = "vkCmdDraw" /\ call.arg = 3 /\ Recording(cmd)
    /\ cmd.pipeline.name = "pipe_wa"
    /\ Cardinality(PacketsBy("cmd_wa_gen6_pre_depth_stall_write")) = 2

(* ------------------------------------------------------------- the writers *)

\* enum intel_cmd_writer_type
WriterNames == {"BATCH", "SURFACE", "STATE", "INSTRUCTION"}

\* struct intel_cmd_writer: used is the high-water mark, size the capacity
Writer(used, size) == [used |-> used, size |-> size]

\* a byte range a reserve call has handed out
Item(which, offset, size) == [which |-> which, offset |-> offset, size |-> size]

RECURSIVE u_is_pow2(_)
u_is_pow2(n) == n = 1 \/ (n > 1 /\ n % 2 = 0 /\ u_is_pow2(n \div 2))

Max(a, b) == IF a >= b THEN a ELSE b

\* cmd.c: the writer is reallocated to at least new_size and at least twice its
\* size; when the allocation fails the writer is discarded (used = 0, the
\* stale capacity stays) and the command buffer fails
cmd_writer_grow(c, which, new_size) ==
    IF c.alloc_ok
    THEN [c EXCEPT !.writers[which].size = Max(new_size, 2 * @)]
    ELSE cmd_fail([c EXCEPT !.writers[which].used = 0,
                            !.discarded = @ \cup {which}],
                  "VK_ERROR_OUT_OF_DEVICE_MEMORY")

\* the offset cmd_writer_reserve() returns in state c
writer_offset(c, which, alignment) == u_align(c.writers[which].used, alignment)

\* assert(offset + size <= writer->size) after the grow: a release build goes
\* on and the caller copies behind the end of the writer
cmd_writer_reserve_recheck(c, which, alignment, size) ==
    IF ~Recording(c) THEN c
    ELSE IF writer_offset(c, which, alignment) + size <= c.writers[which].size THEN c
    ELSE IF ~c.ndebug THEN [c EXCEPT !.status = "aborted"]
    ELSE [c EXCEPT !.status = "corrupt"]

\* cmd_writer_reserve() that never grows the writer
cmd_writer_reserve_no_grow(c, which, alignment, size) ==
    IF ~Recording(c) THEN c
    ELSE IF ~(alignment > 0 /\ u_is_pow2(alignment)) /\ ~c.ndebug
    THEN [c EXCEPT !.status = "aborted"]
    ELSE c

\* cmd_writer_reserve(): the state in which the writer holds the region; the
\* region starts at writer_offset() of that state
cmd_writer_reserve(c, which, alignment, size) ==
    IF ~Recording(c) THEN c
    ELSE IF ~(alignment > 0 /\ u_is_pow2(alignment)) /\ ~c.ndebug
    THEN [c EXCEPT !.status = "aborted"]
    ELSE IF writer_offset(c, which, alignment) + size > c.writers[which].size
    THEN cmd_writer_reserve_recheck(
             cmd_writer_grow(c, which, writer_offset(c, which, alignment) + size),
             which, alignment, size)
    ELSE c

\* writer->used = offset + size, with the range noted as handed out
writer_take(c, which, alignment, size) ==
    IF ~Recording(c) THEN c
    ELSE [c EXCEPT !.writers[which].used = writer_offset(c, which, alignment) + size,
                   !.items = Append(@, Item(which, writer_offset(c, which, alignment),
                                            size)),
                   !.offset = writer_offset(c, which, alignment)]

cmd_state_reserve(c, alignment, len) ==
    writer_take(debug_check(cmd_writer_reserve(c, "STATE", alignment, 4 * len),
                            alignment % 32 = 0),
                "STATE", alignment, 4 * len)

\* cmd_surface_write() as a reservation in the surface writer
cmd_surface_reserve(c, alignment, len) ==
    writer_take(debug_check(cmd_writer_reserve(c, "SURFACE", alignment, 4 * len),
                            alignment % 32 = 0),
                "SURFACE", alignment, 4 * len)

\* cmd_batch_pointer() as a reservation in the batch writer
cmd_batch_reserve(c, len) ==
    writer_take(cmd_writer_reserve(c, "BATCH", 1, 4 * len), "BATCH", 1, 4 * len)

\* kernels are aligned to 64 bytes; 128 bytes of prefetch are reserved behind
\* the kernel and not kept
cmd_instruction_write(c, size) ==
    writer_take(cmd_writer_reserve(c, "INSTRUCTION", 64, size + 128),
                "INSTRUCTION", 64, size)

(* ---------------------------------------------------------- the shader cache *)

\* recorded calls of the shader specification
MaxShaderOps == 5

\* capacity the instruction writer starts with
InstructionWriterSize == 512

\* struct intel_pipeline_shader: the kernel (pCode and codeSize) a pipeline
\* holds for one stage
Kernel(blob, size) == [blob |-> blob, size |-> size]

\* a pipeline as far as its kernels are concerned
ShaderPipeline(name, vs, fs) == [name |-> name, vs |-> vs, fs |-> fs]

\* &pipeline->vs, &pipeline->fs: the shader structs are members of the pipeline
ShaderOf(pipeline, stage) == <<pipeline.name, stage>>

\* two pipelines built from the same vertex shader blob, and a third one
pipe_a == ShaderPipeline("pipe_a", Kernel("vs_blob", 96), Kernel("fs_red", 160))
pipe_b == ShaderPipeline("pipe_b", Kernel("vs_blob", 96), Kernel("fs_blue", 160))
pipe_c == ShaderPipeline("pipe_c", Kernel("vs_other", 160), Kernel("fs_red", 160))

ShaderPipelines == {pipe_a, pipe_b, pipe_c}

CacheEntry(shader, kernel_offset) == [shader |-> shader, kernel_offset |-> kernel_offset]

\* ghost: a kernel copied into the instruction writer
Upload(shader, blob, offset) == [shader |-> shader, blob |-> blob, offset |-> offset]

\* the command buffer as far as the instruction writer and the shader cache
\* are concerned
ShaderCmd(ndebug) ==
    [status |-> "recording", ndebug |-> ndebug, result |-> "VK_SUCCESS",
     alloc_ok |-> TRUE, cache_alloc_ok |-> TRUE,
     writers |-> [w \in WriterNames |-> Writer(0, InstructionWriterSize)],
     items |-> <<>>, offset |-> 0, discarded |-> {},
     shader_cache |-> <<>>, shader_cache_count |-> 0,
     pipeline |-> NoPipeline, vs_offset |-> 0, fs_offset |-> 0,
     kernels |-> <<>>, draw_count |-> 0, nops |-> 0]

\* the entries of the cache that hold the shader
shader_cache_find(c, shader) ==
    {i \in 1..Len(c.shader_cache) : c.shader_cache[i].shader = shader}

\* the kernel goes into the instruction writer
emit_shader_upload(c, shader, kernel) ==
    Then(cmd_instruction_write(c, kernel.size),
         LAMBDA d : IF Recording(d)
                    THEN [d EXCEPT !.kernels = Append(@, Upload(shader, kernel.blob,
                                                             d.offset))]
                    ELSE d)

\* grow the cache if full: sixteen more entries, unless intel_alloc() fails
emit_shader_grow(c) ==
    IF Recording(c) /\ c.shader_cache_count <= Len(c.shader_cache) /\ c.cache_alloc_ok
    THEN [c EXCEPT !.shader_cache_count = @ + 16]
    ELSE c

\* add the shader to the cache
emit_shader_add(c, shader) ==
    IF Recording(c) /\ Len(c.shader_cache) < c.shader_cache_count
    THEN [c EXCEPT !.shader_cache = Append(@, CacheEntry(shader, c.offset))]
    ELSE c

\* emit_shader() that uploads without looking into the cache
emit_shader_no_lookup(c, shader, kernel) ==
    emit_shader_add(emit_shader_grow(emit_shader_upload(c, shader, kernel)), shader)

\* the offset of the kernel is left in c.offset
emit_shader(c, shader, kernel) ==
    IF ~Recording(c) THEN c
    ELSE IF shader_cache_find(c, shader) # {}
    THEN [c EXCEPT !.offset =
              c.shader_cache[CHOOSE i \in shader_cache_find(c, shader) :
                                 \A j \in shader_cache_find(c, shader) : i <= j
                            ].kernel_offset]
    ELSE emit_shader_add(emit_shader_grow(emit_shader_upload(c, shader, kernel)),
                         shader)

\* emit_graphics_pipeline(): the kernels of the active stages
emit_pipeline_shaders(c) ==
    Then(Then(Then(emit_shader(c, ShaderOf(c.pipeline, "vs"), c.pipeline.vs),
                   LAMBDA d : IF Recording(d) THEN [d EXCEPT !.vs_offset = d.offset]
                              ELSE d),
              LAMBDA d : emit_shader(d, ShaderOf(d.pipeline, "fs"), d.pipeline.fs)),
         LAMBDA d : IF Recording(d) THEN [d EXCEPT !.fs_offset = d.offset] ELSE d)

\* cmd_draw() as far as the kernels are concerned
cmd_draw_shaders(c) ==
    Then(emit_pipeline_shaders(c),
         LAMBDA d : IF Recording(d) THEN [d EXCEPT !.draw_count = @ + 1] ELSE d)

InitShader ==
    /\ \E ndebug \in BOOLEAN : cmd = ShaderCmd(ndebug)
    /\ call = NoCall

BindShaderPipeline(max, pipelines) ==
    /\ Recording(cmd) /\ cmd.nops < max
    /\ \E p \in pipelines :
           Record("vkCmdBindPipeline", <<p.name>>,
                  [cmd EXCEPT !.pipeline = p, !.nops = @ + 1])

\* a draw; the allocations it makes succeed or fail
DrawShaders(max) ==
    /\ Recording(cmd) /\ cmd.nops < max /\ cmd.pipeline # NoPipeline
    /\ \E alloc_ok \in BOOLEAN, cache_alloc_ok \in BOOLEAN :
           Record("vkCmdDraw", <<alloc_ok, cache_alloc_ok>>,
                  cmd_draw_shaders([cmd EXCEPT !.alloc_ok = alloc_ok,
                                               !.cache_alloc_ok = cache_alloc_ok,
                                               !.nops = @ + 1]))

NextShader ==
    \/ BindShaderPipeline(MaxShaderOps, ShaderPipelines)
    \/ DrawShaders(MaxShaderOps)

SpecShader == InitShader /\ [][NextShader]_vars

IsPrefix(s, t) == Len(s) <= Len(t) /\ SubSeq(t, 1, Len(s)) = s

\* the kernels a step has uploaded
NewUploads == {cmd'.kernels[i] : i \in (Len(cmd.kernels) + 1)..Len(cmd'.kernels)}

\* C11 as stated: draws with pipelines that share a vertex shader blob get the
\* same instruction-buffer offset, and no blob is written to the instruction
\* buffer more than once
C11_BlobWrittenOnce ==
    \A i, j \in DOMAIN cmd.kernels :
        cmd.kernels[i].blob = cmd.kernels[j].blob => i = j

\* C11: the cache is keyed by the shader object.  No step evicts or changes an
\* entry of the cache, and a draw whose shader object is in the cache gets the
\* offset of the entry and uploads nothing for that shader
C11_CachedShaderReused ==
    [][/\ IsPrefix(cmd.shader_cache, cmd'.shader_cache)
       /\ (call'.name = "vkCmdDraw" /\ Recording(cmd')) =>
              \A i \in DOMAIN cmd.shader_cache :
                  /\ cmd.shader_cache[i].shader = ShaderOf(cmd.pipeline, "vs") =>
                         cmd'.vs_offset = cmd.shader_cache[i].kernel_offset
                  /\ cmd.shader_cache[i].shader = ShaderOf(cmd.pipeline, "fs") =>
                         cmd'.fs_offset = cmd.shader_cache[i].kernel_offset
                  /\ \A u \in NewUploads : u.shader # cmd.shader_cache[i].shader
      ]_vars

\* two draws with one pipeline: the second one found both kernels in the cache
C11_Witness ==
    /\ call.name = "vkCmdDraw" /\ Recording(cmd)
    /\ cmd.draw_count = 2 /\ Len(cmd.kernels) = 2 /\ Len(cmd.shader_cache) = 2
    /\ cmd.vs_offset = cmd.shader_cache[1].kernel_offset

(* ------------------------------------------------------- the dynamic state *)

\* recorded calls of the dynamic-state specification
MaxDynamicOps == 3

\* INTEL_USE_PIPELINE_DYNAMIC_*
DynamicCategories ==
    {"VIEWPORT", "SCISSOR", "LINE_WIDTH", "DEPTH_BIAS", "BLEND_CONSTANTS",
     "DEPTH_BOUNDS", "STENCIL_COMPARE_MASK", "STENCIL_WRITE_MASK",
     "STENCIL_REFERENCE"}

\* VkStencilFaceFlags
FaceMasks == {{"FRONT"}, {"BACK"}, {"FRONT", "BACK"}}

\* struct intel_dynamic_stencil, one face
StencilFace(v) ==
    [stencil_compare_mask |-> v, stencil_write_mask |-> v, stencil_reference |-> v]

\* cmd->bind.state and pipeline->state: every value is v, count viewports and
\* scissors
DynamicState(v, count) ==
    [viewport |-> [first_viewport |-> 0, viewport_count |-> count,
                   viewports |-> [i \in 0..1 |-> v],
                   first_scissor |-> 0, scissor_count |-> count,
                   scissors |-> [i \in 0..1 |-> v]],
     line_width |-> v, depth_bias |-> v, blend |-> v, depth_bounds |-> v,
     stencil |-> [front |-> StencilFace(v), back |-> StencilFace(v)]]

DynamicPipeline(name, use_flags, v) ==
    [name |-> name, use_pipeline_dynamic_state |-> use_flags,
     state |-> DynamicState(v, 1)]

\* pipelines that own no, some and all of the categories
pipe_dyn_none == DynamicPipeline("pipe_dyn_none", {}, "unused")
pipe_dyn_some ==
    DynamicPipeline("pipe_dyn_some", {"VIEWPORT", "LINE_WIDTH", "STENCIL_REFERENCE"},
                    "some")
pipe_dyn_all == DynamicPipeline("pipe_dyn_all", DynamicCategories, "all")

DynamicPipelines == {pipe_dyn_none, pipe_dyn_some, pipe_dyn_all}

\* the command buffer as far as the dynamic state is concerned
DynamicCmd(ndebug) ==
    [status |-> "recording", ndebug |-> ndebug, use_pipeline_dynamic_state |-> {},
     state |-> DynamicState("initial", 0), pipeline |-> NoPipeline, nops |-> 0]

\* memcpy(dst + first, src, count * sizeof(dst[0]))
CopyAt(dst, first, count, src) ==
    [i \in DOMAIN dst |-> IF first <= i /\ i < first + count
                          THEN src[i - first + 1] ELSE dst[i]]

intel_set_viewport(c, first, count, viewports) ==
    [c EXCEPT !.state.viewport.viewport_count = count,
              !.state.viewport.viewports = CopyAt(@, first, count, viewports)]

intel_set_scissor(c, first, count, scissors) ==
    [c EXCEPT !.state.viewport.scissor_count = count,
              !.state.viewport.scissors = CopyAt(@, first, count, scissors)]

intel_set_line_width(c, line_width) == [c EXCEPT !.state.line_width = line_width]

intel_set_depth_bias(c, depth_bias) == [c EXCEPT !.state.depth_bias = depth_bias]

intel_set_blend_constants(c, constants) == [c EXCEPT !.state.blend = constants]

intel_set_depth_bounds(c, bounds) == [c EXCEPT !.state.depth_bounds = bounds]

\* the field of the faces of the mask takes the value
SetFaces(c, faceMask, field, v) ==
    [c EXCEPT !.state.stencil.front[field] = IF "FRONT" \in faceMask THEN v ELSE @,
              !.state.stencil.back[field] = IF "BACK" \in faceMask THEN v ELSE @]

intel_set_stencil_compare_mask(c, faceMask, compareMask) ==
    SetFaces(c, faceMask, "stencil_compare_mask", compareMask)

intel_set_stencil_write_mask(c, faceMask, writeMask) ==
    SetFaces(c, faceMask, "stencil_write_mask", writeMask)

intel_set_stencil_reference(c, faceMask, reference) ==
    SetFaces(c, faceMask, "stencil_reference", reference)

vkCmdSetViewport(c, firstViewport, viewportCount, pViewports) ==
    IF "VIEWPORT" \in c.use_pipeline_dynamic_state THEN c
    ELSE intel_set_viewport(c, firstViewport, viewportCount, pViewports)

vkCmdSetScissor(c, firstScissor, scissorCount, pScissors) ==
    IF "SCISSOR" \in c.use_pipeline_dynamic_state THEN c
    ELSE intel_set_scissor(c, firstScissor, scissorCount, pScissors)

vkCmdSetLineWidth(c, line_width) ==
    IF "LINE_WIDTH" \in c.use_pipeline_dynamic_state THEN c
    ELSE [c EXCEPT !.state.line_width = line_width]

vkCmdSetDepthBias(c, depth_bias) ==
    IF "DEPTH_BIAS" \in c.use_pipeline_dynamic_state THEN c
    ELSE intel_set_depth_bias(c, depth_bias)

vkCmdSetBlendConstants(c, blendConstants) ==
    IF "BLEND_CONSTANTS" \in c.use_pipeline_dynamic_state THEN c
    ELSE intel_set_blend_constants(c, blendConstants)

vkCmdSetDepthBounds(c, bounds) ==
    IF "DEPTH_BOUNDS" \in c.use_pipeline_dynamic_state THEN c
    ELSE intel_set_depth_bounds(c, bounds)

vkCmdSetStencilCompareMask(c, faceMask, compareMask) ==
    IF "STENCIL_COMPARE_MASK" \in c.use_pipeline_dynamic_state THEN c
    ELSE intel_set_stencil_compare_mask(c, faceMask, compareMask)

vkCmdSetStencilWriteMask(c, faceMask, writeMask) ==
    IF "STENCIL_WRITE_MASK" \in c.use_pipeline_dynamic_state THEN c
    ELSE intel_set_stencil_write_mask(c, faceMask, writeMask)

vkCmdSetStencilReference(c, faceMask, reference) ==
    IF "STENCIL_REFERENCE" \in c.use_pipeline_dynamic_state THEN c
    ELSE intel_set_stencil_reference(c, faceMask, reference)

\* the values of the pipeline for the categories in use_flags
bind_dynamic_values(c, p, use_flags) ==
    LET s == p.state
        Own(k, Set(_), d) == IF k \in use_flags THEN Set(d) ELSE d
    IN  Own("STENCIL_REFERENCE",
            LAMBDA d : intel_set_stencil_reference(
                           intel_set_stencil_reference(
                               d, {"FRONT"}, s.stencil.front.stencil_reference),
                           {"BACK"}, s.stencil.back.stencil_reference),
        Own("STENCIL_WRITE_MASK",
            LAMBDA d : intel_set_stencil_write_mask(
                           intel_set_stencil_write_mask(
                               d, {"FRONT"}, s.stencil.front.stencil_write_mask),
                           {"BACK"}, s.stencil.back.stencil_write_mask),
        Own("STENCIL_COMPARE_MASK",
            LAMBDA d : intel_set_stencil_compare_mask(
                           intel_set_stencil_compare_mask(
                               d, {"FRONT"}, s.stencil.front.stencil_compare_mask),
                           {"BACK"}, s.stencil.back.stencil_compare_mask),
        Own("DEPTH_BOUNDS", LAMBDA d : intel_set_depth_bounds(d, s.depth_bounds),
        Own("BLEND_CONSTANTS", LAMBDA d : intel_set_blend_constants(d, s.blend),
        Own("DEPTH_BIAS", LAMBDA d : intel_set_depth_bias(d, s.depth_bias),
        Own("LINE_WIDTH", LAMBDA d : intel_set_line_width(d, s.line_width),
        Own("SCISSOR",
            LAMBDA d : intel_set_scissor(d, s.viewport.first_scissor,
                                         s.viewport.scissor_count,
                                         <<s.viewport.scissors[0],
                                           s.viewport.scissors[1]>>),
        Own("VIEWPORT",
            LAMBDA d : intel_set_viewport(d, s.viewport.first_viewport,
                                          s.viewport.viewport_count,
                                          <<s.viewport.viewports[0],
                                            s.viewport.viewports[1]>>),
            c)))))))))

\* cmd_bind_dynamic_state() that does not note what the pipeline owns
cmd_bind_dynamic_state_no_flags(c, p) ==
    bind_dynamic_values(c, p, p.use_pipeline_dynamic_state)

cmd_bind_dynamic_state(c, p) ==
    IF p.use_pipeline_dynamic_state = {} THEN c
    ELSE bind_dynamic_values(
             [c EXCEPT !.use_pipeline_dynamic_state = p.use_pipeline_dynamic_state],
             p, p.use_pipeline_dynamic_state)

\* cmd_bind_graphics_pipeline() as far as the dynamic state is concerned
cmd_bind_dynamic_pipeline(c, p) ==
    cmd_bind_dynamic_state([c EXCEPT !.pipeline = p], p)

InitDynamic ==
    /\ \E ndebug \in BOOLEAN : cmd = DynamicCmd(ndebug)
    /\ call = NoCall

\* a recorded call of the dynamic-state specification
DynamicCall(max, name, arg, c) ==
    /\ Recording(cmd) /\ cmd.nops < max
    /\ Record(name, arg, [c EXCEPT !.nops = @ + 1])

DynamicBindPipeline ==
    \E p \in DynamicPipelines :
        DynamicCall(MaxDynamicOps, "vkCmdBindPipeline", <<p.name>>,
                    cmd_bind_dynamic_pipeline(cmd, p))

SetViewport ==
    \E first \in 0..1 :
        DynamicCall(MaxDynamicOps, "vkCmdSetViewport", "VIEWPORT",
                    vkCmdSetViewport(cmd, first, 2 - first,
                                     [i \in 1..(2 - first) |-> "app"]))

SetScissor ==
    \E first \in 0..1 :
        DynamicCall(MaxDynamicOps, "vkCmdSetScissor", "SCISSOR",
                    vkCmdSetScissor(cmd, first, 2 - first,
                                    [i \in 1..(2 - first) |-> "app"]))

SetLineWidth ==
    DynamicCall(MaxDynamicOps, "vkCmdSetLineWidth", "LINE_WIDTH",
                vkCmdSetLineWidth(cmd, "app"))

SetDepthBias ==
    DynamicCall(MaxDynamicOps, "vkCmdSetDepthBias", "DEPTH_BIAS",
                vkCmdSetDepthBias(cmd, "app"))

SetBlendConstants ==
    DynamicCall(MaxDynamicOps, "vkCmdSetBlendConstants", "BLEND_CONSTANTS",
                vkCmdSetBlendConstants(cmd, "app"))

SetDepthBounds ==
    DynamicCall(MaxDynamicOps, "vkCmdSetDepthBounds", "DEPTH_BOUNDS",
                vkCmdSetDepthBounds(cmd, "app"))

SetStencilCompareMask ==
    \E faceMask \in FaceMasks :
        DynamicCall(MaxDynamicOps, "vkCmdSetStencilCompareMask",
                    "STENCIL_COMPARE_MASK",
                    vkCmdSetStencilCompareMask(cmd, faceMask, "app"))

SetStencilWriteMask ==
    \E faceMask \in FaceMasks :
        DynamicCall(MaxDynamicOps, "vkCmdSetStencilWriteMask", "STENCIL_WRITE_MASK",
                    vkCmdSetStencilWriteMask(cmd, faceMask, "app"))

SetStencilReference ==
    \E faceMask \in FaceMasks :
        DynamicCall(MaxDynamicOps, "vkCmdSetStencilReference", "STENCIL_REFERENCE",
                    vkCmdSetStencilReference(cmd, faceMask, "app"))

\* assert(0 && "vkCmdDrawIndirect not implemented")
vkCmdDrawIndirect(c) == debug_check(c, FALSE)

vkCmdDrawIndexedIndirect(c) == debug_check(c, FALSE)

vkCmdDispatch(c) == debug_check(c, FALSE)

vkCmdDispatchIndirect(c) == debug_check(c, FALSE)

\* the body is a TODO comment
vkCmdPushConstants(c) == c

\* the recording operations that are not implemented
Unimplemented ==
    {"vkCmdDrawIndirect", "vkCmdDrawIndexedIndirect", "vkCmdDispatch",
     "vkCmdDispatchIndirect", "vkCmdPushConstants"}

DrawIndirect ==
    DynamicCall(MaxDynamicOps, "vkCmdDrawIndirect", <<>>, vkCmdDrawIndirect(cmd))

DrawIndexedIndirect ==
    DynamicCall(MaxDynamicOps, "vkCmdDrawIndexedIndirect", <<>>,
                vkCmdDrawIndexedIndirect(cmd))

Dispatch ==
    DynamicCall(MaxDynamicOps, "vkCmdDispatch", <<>>, vkCmdDispatch(cmd))

DispatchIndirect ==
    DynamicCall(MaxDynamicOps, "vkCmdDispatchIndirect", <<>>,
                vkCmdDispatchIndirect(cmd))

PushConstants ==
    DynamicCall(MaxDynamicOps, "vkCmdPushConstants", <<>>, vkCmdPushConstants(cmd))

NextDynamic ==
    \/ DrawIndirect
    \/ DrawIndexedIndirect
    \/ Dispatch
    \/ DispatchIndirect
    \/ PushConstants
    \/ DynamicBindPipeline
    \/ SetViewport
    \/ SetScissor
    \/ SetLineWidth
    \/ SetDepthBias
    \/ SetBlendConstants
    \/ SetDepthBounds
    \/ SetStencilCompareMask
    \/ SetStencilWriteMask
    \/ SetStencilReference

SpecDynamic == InitDynamic /\ [][NextDynamic]_vars

\* the part of the dynamic snapshot a category holds
Snapshot(c, k) ==
    CASE k = "VIEWPORT" -> <<c.state.viewport.viewport_count, c.state.viewport.viewports>>
      [] k = "SCISSOR" -> <<c.state.viewport.scissor_count, c.state.viewport.scissors>>
      [] k = "LINE_WIDTH" -> <<c.state.line_width>>
      [] k = "DEPTH_BIAS" -> <<c.state.depth_bias>>
      [] k = "BLEND_CONSTANTS" -> <<c.state.blend>>
      [] k = "DEPTH_BOUNDS" -> <<c.state.depth_bounds>>
      [] k = "STENCIL_COMPARE_MASK" -> <<c.state.stencil.front.stencil_compare_mask,
                                         c.state.stencil.back.stencil_compare_mask>>
      [] k = "STENCIL_WRITE_MASK" -> <<c.state.stencil.front.stencil_write_mask,
                                       c.state.stencil.back.stencil_write_mask>>
      [] k = "STENCIL_REFERENCE" -> <<c.state.stencil.front.stencil_reference,
                                      c.state.stencil.back.stencil_reference>>

\* the bound pipeline owns the category
Owns(c, k) == c.pipeline # NoPipeline /\ k \in c.pipeline.use_pipeline_dynamic_state

\* C12: a setter of a category the bound pipeline owns leaves the snapshot of
\* that category as it was
C12_OwnedCategoryKept ==
    [][(call'.arg \in DynamicCategories /\ Owns(cmd, call'.arg)) =>
           Snapshot(cmd', call'.arg) = Snapshot(cmd, call'.arg)]_vars

\* the stencil reference was set under a pipeline that owns it, after the
\* depth bias, which that pipeline does not own, had taken the value of the call
C12_Witness ==
    /\ call.name = "vkCmdSetStencilReference"
    /\ Owns(cmd, "STENCIL_REFERENCE") /\ ~Owns(cmd, "DEPTH_BIAS")
    /\ cmd.state.depth_bias = "app"
    /\ Snapshot(cmd, "STENCIL_REFERENCE") = <<"some", "some">>

\* C13: a recording operation that is not implemented ends the process; none
\* returns to its caller
C13_UnimplementedAborts ==
    call.name \in Unimplemented => cmd.status = "aborted"

(* ------------------------------------- specification: primitive restart *)

\* entry points recorded in one command buffer of the restart specification
MaxRestartOps == 4

\* VkIndexType
IndexTypes == {"UINT16", "UINT32"}

\* pipelines with and without primitive restart: a list, a fan and a rectangle
\* list, with the restart index at the maximum of either index type or not
RestartPipelines ==
    {pipe_plain} \cup
    {WithRestart(pipe_plain, prim_type, index) :
         prim_type \in {"TRILIST", "TRIFAN", "RECTLIST"},
         index \in {"0x0", "0xffff", "0xffffffff"}}

InitRestart ==
    /\ \E gen \in Gens, ndebug \in BOOLEAN :
           cmd = BeginCmd(gen, ndebug, FALSE, LargeRelocCount)
    /\ call = NoCall

RestartBeginRenderPass == BeginRenderPass(MaxRestartOps, PlainPasses, InlineContents)

RestartBindPipeline == BindPipeline(MaxRestartOps, RestartPipelines)

RestartBindIndexBuffer ==
    /\ Recording(cmd) /\ cmd.nops < MaxRestartOps
    /\ ~cmd.index_buf
    /\ \E indexType \in IndexTypes :
           Record("vkCmdBindIndexBuffer", indexType,
                  vkCmdBindIndexBuffer(Enter(cmd), indexType))

RestartDraw ==
    /\ CanDraw(cmd) /\ cmd.nops < MaxRestartOps
    /\ Record("vkCmdDraw", <<>>, vkCmdDraw(Enter(cmd)))

RestartDrawIndexed ==
    /\ CanDraw(cmd) /\ cmd.nops < MaxRestartOps
    /\ cmd.index_buf
    /\ Record("vkCmdDrawIndexed", <<>>, vkCmdDrawIndexed(Enter(cmd)))

NextRestart ==
    \/ RestartBeginRenderPass
    \/ RestartBindPipeline
    \/ RestartBindIndexBuffer
    \/ RestartDraw
    \/ RestartDrawIndexed

SpecRestart == InitRestart /\ [][NextRestart]_vars

\* the restart index is the largest value of the index type
RestartIndexIsMax(c) ==
    \/ c.index_type = "UINT16" /\ c.pipeline.primitive_restart_index = "0xffff"
    \/ c.index_type = "UINT32" /\ c.pipeline.primitive_restart_index = "0xffffffff"

\* packets of the index buffer and of the primitive in the batch of the call
IndexOrPrimitivePackets ==
    {i \in DOMAIN cmd.batch : cmd.batch[i].op \in {"3DSTATE_INDEX_BUFFER", "3DPRIMITIVE"}}

\* the indexed draw was rejected: the process ended before the index buffer
Rejected == cmd.status = "aborted" /\ IndexOrPrimitivePackets = {}

\* C14 as stated: an indexed draw with a restart pipeline is rejected, with no
\* index-buffer or primitive packet, when the topology is RECTLIST below
\* gen7.5 or the restart index is the maximum of the index type
C14_UnsupportedRestartRejected ==
    (/\ call.name = "vkCmdDrawIndexed"
     /\ cmd.pipeline.primitive_restart
     /\ \/ cmd.pipeline.prim_type = "RECTLIST" /\ cmd.gen < 750
        \/ RestartIndexIsMax(cmd))
    => Rejected

\* C14: in a build with assertions an indexed draw with a restart pipeline is
\* rejected, with no index-buffer or primitive packet, exactly when the
\* topology is RECTLIST from gen7.5 on and, before gen7.5, when the topology
\* is not one of the five list and strip topologies or the restart index is
\* the maximum of the index type; a build without assertions rejects nothing
C14_UnsupportedRestartAsserted ==
    (call.name = "vkCmdDrawIndexed" /\ cmd.pipeline.primitive_restart)
    => (Rejected <=>
            /\ ~cmd.ndebug
            /\ IF cmd.gen >= 750 THEN cmd.pipeline.prim_type = "RECTLIST"
               ELSE \/ cmd.pipeline.prim_type \notin RestartTopologies
                    \/ RestartIndexIsMax(cmd))

\* a fan with restart was rejected on gen6 by a build with assertions
C14_Witness ==
    /\ call.name = "vkCmdDrawIndexed" /\ Rejected
    /\ cmd.gen = 600 /\ cmd.pipeline.primitive_restart
    /\ cmd.pipeline.prim_type = "TRIFAN" /\ ~RestartIndexIsMax(cmd)

\* packets of cmd_batch_flush() with the stall bit in the batch of a state
FlushStalls(c) ==
    {i \in DOMAIN c.batch :
         /\ c.batch[i].op = "PIPE_CONTROL" /\ c.batch[i].by = "cmd_batch_flush"
         /\ "CS_STALL" \in c.batch[i].dw1}

\* C15: a wait-events call leaves the command buffer as a pipeline barrier
\* with a stage mask beyond the host stage and the same barriers does, and
\* once a draw has been recorded it emits a PIPE_CONTROL with the stall bit,
\* whatever the barriers are
C15_WaitEventsIsStallingBarrier ==
    [][call'.name = "vkCmdWaitEvents" =>
           /\ cmd' = vkCmdPipelineBarrier(Enter(cmd), {"TOP_OF_PIPE"}, {"HOST"},
                                          call.arg.args.mem, call.arg.args.img)
           /\ (cmd.draw_count > 0 /\ Recording(cmd')) => FlushStalls(cmd') # {}
      ]_vars

\* a wait-events call without barriers stalled after a draw
C15_Witness ==
    /\ call.name = "vkCmdWaitEvents" /\ Recording(cmd)
    /\ call.arg.flags = {"CS_STALL"} /\ call.arg.images = 0
    /\ cmd.draw_count > 0 /\ FlushStalls(cmd) # {}

(* ------------------------------------------- specification: the writers *)

\* reservations made in one command buffer of the writer specification
MaxWriterOps == 4

\* alignments of the states and surfaces the draw path writes, in bytes
StateAlignments == {32, 64}

\* lengths of states and of batch commands, in dwords
StateLens == {8, 40}

BatchLens == {4, 60}

\* sizes of kernels, in bytes
KernelSizes == {96, 200}

InitWriter ==
    /\ \E ndebug \in BOOLEAN : cmd = ShaderCmd(ndebug)
    /\ call = NoCall

\* a reservation of the writer specification: the allocation a grow makes
\* succeeds or fails
WriterCall(which, alignment, size, alloc_ok, Reserve(_)) ==
    /\ Recording(cmd) /\ cmd.nops < MaxWriterOps
    /\ Record("reserve", [which |-> which, alignment |-> alignment, size |-> size],
              Reserve([cmd EXCEPT !.alloc_ok = alloc_ok, !.nops = @ + 1]))

StateReserve ==
    \E alignment \in StateAlignments, len \in StateLens, alloc_ok \in BOOLEAN :
        WriterCall("STATE", alignment, 4 * len, alloc_ok,
                   LAMBDA c : cmd_state_reserve(c, alignment, len))

SurfaceReserve ==
    \E alignment \in StateAlignments, len \in StateLens, alloc_ok \in BOOLEAN :
        WriterCall("SURFACE", alignment, 4 * len, alloc_ok,
                   LAMBDA c : cmd_surface_reserve(c, alignment, len))

InstructionWrite ==
    \E size \in KernelSizes, alloc_ok \in BOOLEAN :
        WriterCall("INSTRUCTION", 64, size, alloc_ok,
                   LAMBDA c : cmd_instruction_write(c, size))

BatchReserve ==
    \E len \in BatchLens, alloc_ok \in BOOLEAN :
        WriterCall("BATCH", 1, 4 * len, alloc_ok,
                   LAMBDA c : cmd_batch_reserve(c, len))

NextWriter ==
    \/ StateReserve
    \/ SurfaceReserve
    \/ InstructionWrite
    \/ BatchReserve

SpecWriter == InitWriter /\ [][NextWriter]_vars

\* two byte ranges of one writer have a byte in common
Overlap(a, b) ==
    /\ a.which = b.which
    /\ a.offset < b.offset + b.size /\ b.offset < a.offset + a.size

\* the range the step has handed out
Handed == cmd'.items[Len(cmd'.items)]

\* the contract of a reservation that has returned: the offset is aligned, not
\* below the mark, the range is within the capacity and free, and the mark has
\* not gone down
ReserveContract ==
    /\ Len(cmd'.items) = Len(cmd.items) + 1
    /\ Handed.which = call'.arg.which /\ Handed.size = call'.arg.size
    /\ Handed.offset % call'.arg.alignment = 0
    /\ Handed.offset >= cmd.writers[Handed.which].used
    /\ Handed.offset + Handed.size <= cmd'.writers[Handed.which].size
    /\ cmd'.writers[Handed.which].used >= cmd.writers[Handed.which].used
    /\ \A i \in DOMAIN cmd.items : ~Overlap(cmd.items[i], Handed)

FlushPackets(c) ==
    {i \in DOMAIN c.batch :
         /\ c.batch[i].op = "PIPE_CONTROL" /\ c.batch[i].by = "cmd_batch_flush"
         /\ c.batch[i].dw1 \cap (FlushBits \cup InvalidateBits) # {}}

\* C17 as stated: the packet a barrier call emits has the stall bit whenever
\* it has a flush or an invalidate bit
C17_FlushImpliesStall ==
    IsBarrierCall =>
        \A i \in FlushPackets(cmd) : "CS_STALL" \in cmd.batch[i].dw1

\* C17: a barrier call emits at most one packet of its own, and when that
\* packet has a flush or an invalidate bit it has the stall bit exactly when
\* the call is a wait-events call, or a stage mask names a stage other than
\* the host, or a layout transition of an image barrier has contributed a
\* flush or an invalidate bit; bits that come from the access masks alone
\* bring no stall
C17_StallFromStageOrTransition ==
    [][(call'.name \in {"vkCmdPipelineBarrier", "vkCmdWaitEvents"}) =>
           /\ Cardinality({i \in DOMAIN cmd'.batch :
                               cmd'.batch[i].by = "cmd_batch_flush"}) <= 1
           /\ \A i \in FlushPackets(cmd') :
                  "CS_STALL" \in cmd'.batch[i].dw1 <=>
                      \/ call'.name = "vkCmdWaitEvents"
                      \/ call.arg.src \ {"HOST"} # {}
                      \/ call.arg.dst \ {"HOST"} # {}
                      \/ image_barriers_flags(cmd.gen, call.arg.args.img)
                             \cap (FlushBits \cup InvalidateBits) # {}
      ]_vars

\* a pipeline barrier between host stages whose image barrier made the packet
\* stall
C17_Witness ==
    /\ call.name = "vkCmdPipelineBarrier" /\ Recording(cmd)
    /\ call.arg.stage_flags = {} /\ call.arg.images = 1
    /\ \E i \in FlushPackets(cmd) : "CS_STALL" \in cmd.batch[i].dw1

\* the workaround the flag PRE_DEPTH_STALL_WRITE of cmd->bind.wa_flags guards
GuardedWa == "cmd_wa_gen6_pre_depth_stall_write"

\* C18: since the primitive before, and between the two primitives before, the
\* two packets of the flag-guarded workaround have been emitted once or not at
\* all, whichever of the render-target, depth-buffer, pipeline, barrier flush
\* and meta paths have asked for them
C18_GuardedWaAtMostOnce ==
    Recording(cmd) =>
        /\ cmd.wa_emitted[GuardedWa] \in {0, 2}
        /\ cmd.wa_in_draw[GuardedWa] \in {0, 2}

\* a draw with the workaround pipeline found the workaround emitted by the
\* flush of the barrier before it and did not emit it again
C18_Witness ==
    /\ call.name = "vkCmdDraw" /\ Recording(cmd)
    /\ cmd.pipeline.name = "pipe_wa"
    /\ Primitives # {} /\ PacketsBy(GuardedWa) = {}
    /\ cmd.wa_in_draw[GuardedWa] = 2

(* ------------------------ specification: the surface base address moves *)

\* entry points recorded in one command buffer of the rebase specification
MaxRebaseOps == 6

\* draws of the run that fills the surface writer up to the 64KB limit
LongRun == 339

\* capacity of the relocation table of a command buffer that holds the run
RebaseRelocCount == 4096

\* n draws recorded back to back
RECURSIVE draw_run(_, _)
draw_run(c, n) ==
    IF n = 0 THEN c
    ELSE IF n = 1 THEN vkCmdDraw(Enter(c))
    ELSE Then(draw_run(c, n \div 2), LAMBDA d : draw_run(d, n - n \div 2))

InitRebase ==
    /\ \E gen \in Gens, ndebug \in BOOLEAN :
           cmd = BeginCmd(gen, ndebug, FALSE, RebaseRelocCount)
    /\ call = NoCall

RebaseBeginRenderPass ==
    BeginRenderPass(MaxRebaseOps, ClearAndPlainPasses, InlineContents)

RebaseEndRenderPass == EndRenderPass(MaxRebaseOps)

RebaseBindPipeline == BindPipeline(MaxRebaseOps, VertexPipelines)

RebaseDraw == Draw(MaxRebaseOps)

\* the run counts as one entry point of the bound
RebaseDrawRun ==
    /\ CanDraw(cmd) /\ cmd.nops < MaxRebaseOps /\ cmd.draw_count < LongRun
    /\ Record("vkCmdDraw", <<LongRun>>, [draw_run(cmd, LongRun) EXCEPT !.nops = cmd.nops + 1])

RebaseBindIndexBuffer ==
    /\ Recording(cmd) /\ cmd.nops < MaxRebaseOps
    /\ ~cmd.index_buf
    /\ Record("vkCmdBindIndexBuffer", <<>>, vkCmdBindIndexBuffer(Enter(cmd), "UINT16"))

RebaseDrawIndexed ==
    /\ CanDraw(cmd) /\ cmd.nops < MaxRebaseOps
    /\ cmd.index_buf
    /\ Record("vkCmdDrawIndexed", <<>>, vkCmdDrawIndexed(Enter(cmd)))

NextRebase ==
    \/ RebaseBeginRenderPass
    \/ RebaseEndRenderPass
    \/ RebaseBindPipeline
    \/ RebaseBindIndexBuffer
    \/ RebaseDraw
    \/ RebaseDrawIndexed
    \/ RebaseDrawRun

SpecRebase == InitRebase /\ [][NextRebase]_vars

\* the binding tables the call has written to the surface writer
BindingTables(c) == {i \in DOMAIN c.surface : c.surface[i].type = "BINDING_TABLE"}

\* the surface base address in effect: the last STATE_BASE_ADDRESS of the batch
\* carries it with bit 0, the modify enable, set
SurfaceBase(c) == c.sba_in_batch - 1

\* the recording has not failed an assertion, the base of the surface writer is
\* the base in effect, and the binding tables of the call end within 64KB of it
WithinLimit(c) ==
    /\ c.status = "recording"
    /\ SurfaceBase(c) = c.surface_sba
    /\ \A i \in BindingTables(c) :
           /\ c.surface[i].offset >= SurfaceBase(c)
           /\ c.surface[i].offset - SurfaceBase(c) + c.surface[i].size
                  <= BindingTableLimit

\* C19: every binding table a draw or a meta-op emits ends within 64KB of the
\* surface base address in effect, no assertion on the limit fails, and one
\* draw writes no more surface bytes than cmd_get_max_surface_write() gives
C19_BindingTablesWithinLimit ==
    [][/\ WithinLimit(cmd')
       /\ (call'.name = "vkCmdDraw" /\ call'.arg = <<>>) =>
              cmd'.surface_used - cmd.surface_used
                  <= cmd_get_max_surface_write(cmd.pipeline)
      ]_vars

\* a draw has moved the base and written its binding table behind the 64KB
\* that follow the first base
C19_Witness ==
    /\ call.name = "vkCmdDraw" /\ call.arg = <<>> /\ Recording(cmd)
    /\ SurfaceBase(cmd) > 0
    /\ \E i \in BindingTables(cmd) :
           cmd.surface[i].offset + cmd.surface[i].size > BindingTableLimit


(* ----------------------------------------- the order of packets in a draw *)

\* positions in the batch of the call of the packets with one of the opcodes
Pos(c, ops) == {i \in DOMAIN c.batch : c.batch[i].op \in ops}

\* every packet of the first set is written before every packet of the second
Precede(A, B) == \A i \in A, j \in B : i < j

\* the fixed-function and shader-stage packets emit_bounded_states() writes
\* before emit_shader_resources()
FixedFunctionPackets(c) ==
    Pos(c, {"pipeline_cmds", "gen6_cc_viewport_pcb", "gen7_cc_viewport_pcb",
            "3DSTATE_GS", "3DSTATE_CLIP_SF", "3DSTATE_CLIP_SF_WM", "3DSTATE_WM",
            "3DSTATE_PS"})

\* binding-table and sampler pointers
BindingPackets(c) == {i \in DOMAIN c.batch : c.batch[i].by = "emit_shader_resources"}

VertexPackets(c) == Pos(c, {"3DSTATE_VERTEX_BUFFERS", "3DSTATE_VS"})

IndexPackets(c) == Pos(c, {"3DSTATE_VF", "3DSTATE_INDEX_BUFFER"})

\* the step records one draw that has not failed
OneDraw ==
    /\ call'.name \in {"vkCmdDraw", "vkCmdDrawIndexed"} /\ call'.arg = <<>>
    /\ Recording(cmd')

\* the parts of the order that do not involve the resource bindings: the base
\* address first and only when the base moves, the index buffer after the
\* vertex packets and only in an indexed draw, one primitive, last
DrawFrame ==
    /\ Pos(cmd', {"STATE_BASE_ADDRESS"}) # {} <=> cmd'.surface_sba # cmd.surface_sba
    /\ Precede(Pos(cmd', {"STATE_BASE_ADDRESS"}),
               FixedFunctionPackets(cmd') \cup BindingPackets(cmd')
                   \cup VertexPackets(cmd'))
    /\ FixedFunctionPackets(cmd') # {} /\ BindingPackets(cmd') # {}
    /\ Pos(cmd', {"3DSTATE_VERTEX_BUFFERS"}) # {} /\ Pos(cmd', {"3DSTATE_VS"}) # {}
    /\ IndexPackets(cmd') # {} <=> call'.name = "vkCmdDrawIndexed"
    /\ Precede(FixedFunctionPackets(cmd') \cup BindingPackets(cmd')
                   \cup VertexPackets(cmd'),
               IndexPackets(cmd'))
    /\ Pos(cmd', {"3DPRIMITIVE"}) = {Len(cmd'.batch)}

\* the primitive carries the draw count of before the call, the bounded states
\* were chosen by the render-pass-changed flag of before the call, and the call
\* leaves the count one higher and the flags clear
DrawCounters ==
    /\ cmd'.batch[Len(cmd'.batch)].arg = <<cmd.draw_count>>
    /\ Pos(cmd', {"3DSTATE_DRAWING_RECTANGLE"}) # {} <=> cmd.render_pass_changed
    /\ cmd'.draw_count = cmd.draw_count + 1
    /\ ~cmd'.render_pass_changed
    /\ cmd'.wa_flags = {}

\* C20 as stated: in a draw the packets come in the order base address,
\* bounded states with the vertex-buffer and shader-stage packets, resource
\* bindings, index buffer, primitive, and the counters change after the
\* primitive
C20_BindingsAfterVertexPackets ==
    [][OneDraw =>
           /\ DrawFrame
           /\ Precede(FixedFunctionPackets(cmd') \cup VertexPackets(cmd'),
                      BindingPackets(cmd'))
           /\ DrawCounters]_vars

\* C20: in a draw the packets come in the order base address (only when the
\* base moves), fixed-function and GS/WM/PS packets, binding-table and sampler
\* pointers, vertex-buffer and vertex-shader packets, index buffer (only when
\* indexed), primitive; the draw counter, the render-pass-changed flag and the
\* workaround flags are those of before the call until the primitive is written
C20_BindingsBeforeVertexPackets ==
    [][OneDraw =>
           /\ DrawFrame
           /\ Precede(FixedFunctionPackets(cmd'), BindingPackets(cmd'))
           /\ Precede(BindingPackets(cmd'), VertexPackets(cmd'))
           /\ DrawCounters]_vars

\* an indexed draw that moved the surface base address
C20_Witness ==
    /\ call.name = "vkCmdDrawIndexed" /\ call.arg = <<>> /\ Recording(cmd)
    /\ Pos(cmd, {"STATE_BASE_ADDRESS"}) # {}
    /\ Pos(cmd, {"3DSTATE_INDEX_BUFFER"}) # {}
    /\ Pos(cmd, {"3DSTATE_VERTEX_BUFFERS"}) # {}
    /\ cmd.draw_count > LongRun


(* -------------------------------- binding-table entries across a rebase *)

\* entry k of the binding table at position i of the surface items of the
\* call, added to the base in effect, is the offset of the k-th of the surface
\* states written just before the table
EntryResolves(c, i, k) ==
    LET n == Len(c.surface[i].data)
    IN  /\ i - n + k - 1 \in DOMAIN c.surface
        /\ c.surface[i - n + k - 1].type = "SURFACE"
        /\ c.surface[i].data[k] + SurfaceBase(c) = c.surface[i - n + k - 1].offset

\* emit_binding_table(): one entry per slot, in the order of the slots
TableEntriesResolve(c) ==
    \A i \in BindingTables(c) :
        /\ c.surface[i].data # <<>>
        /\ \A k \in DOMAIN c.surface[i].data : EntryResolves(c, i, k)

\* gen6_meta_surface_states(): the table has an entry for the source and one
\* for the destination, and the entry of a surface the meta-op does not have
\* stays 0
MetaEntriesResolve(c) ==
    \A j \in DOMAIN c.surface :
        c.surface[j].type = "SURFACE" =>
            \E i \in BindingTables(c) :
                /\ i > j
                /\ \E k \in DOMAIN c.surface[i].data :
                       c.surface[i].data[k] + SurfaceBase(c) = c.surface[j].offset

\* C5: a call that moves the base of the surface writer writes a
\* STATE_BASE_ADDRESS carrying the new base, and every binding-table entry of
\* a draw, before and after the move, added to the base in effect is the
\* offset in the surface writer of the surface state it refers to; so is the
\* entry of every surface state of a meta-op
C5_EntriesResolveAcrossRebase ==
    [][Recording(cmd') =>
           /\ (/\ cmd'.surface_sba # cmd.surface_sba
               /\ ~(call'.name = "vkCmdDraw" /\ call'.arg # <<>>)) =>
                  \E p \in Pos(cmd', {"STATE_BASE_ADDRESS"}) :
                      cmd'.batch[p].arg = <<cmd'.surface_sba + 1>>
           /\ call'.name \in {"vkCmdDraw", "vkCmdDrawIndexed"} =>
                  TableEntriesResolve(cmd')
           /\ MetaEntriesResolve(cmd')]_vars

\* a draw after the move: the entries of its binding table are below the
\* offsets of the surface states they refer to
C5_Witness ==
    /\ call.name = "vkCmdDraw" /\ call.arg = <<>> /\ Recording(cmd)
    /\ SurfaceBase(cmd) > 0 /\ Pos(cmd, {"STATE_BASE_ADDRESS"}) = {}
    /\ \E i \in BindingTables(cmd) :
           \E k \in DOMAIN cmd.surface[i].data :
               /\ EntryResolves(cmd, i, k)
               /\ cmd.surface[i].data[k] < cmd.surface[i - Len(cmd.surface[i].data) + k - 1].offset


(* ------------------------------ specification: binding tables with holes *)

\* entry points recorded in one command buffer of the binding-table
\* specification, and the longest resource map
MaxTableOps == 4

MaxTableSlots == 3

\* a subpass whose colour attachment is VK_ATTACHMENT_UNUSED
rp_unused_color == RenderPass("rp_unused_color", <<FALSE, FALSE>>,
                              <<AttachmentUnused>>, 1, TRUE)

TablePasses == {rp_plain, rp_unused_color}

\* the slots of a resource map: a render target of the subpass and one beyond
\* its colour count, a descriptor that is set and one that is not, an unused
\* slot, and a slot of a type emit_binding_table() does not expect
TableSlotKinds ==
    {Slot("RT", 0, NoDesc), Slot("RT", 1, NoDesc),
     Slot("SURFACE", 0, "desc_img"), Slot("SURFACE", 0, "desc_unset"),
     Slot("UNUSED", 0, NoDesc), Slot("SAMPLER", 0, NoDesc)}

TableSlotLists == UNION {[1..n -> TableSlotKinds] : n \in 1..MaxTableSlots}

TableRmap(slots) ==
    LET rt_count == Cardinality({i \in DOMAIN slots : slots[i].type = "RT"})
    IN  Rmap(rt_count, 0, Len(slots) - rt_count, 0, slots)

TablePipelines ==
    {Pipeline("pipe_table", {}, FsRmaps(TableRmap(slots)), 0, {}) :
         slots \in TableSlotLists}

InitTable ==
    /\ \E gen \in Gens, ndebug \in BOOLEAN :
           cmd = BeginCmd(gen, ndebug, FALSE, LargeRelocCount)
    /\ call = NoCall

TableBeginRenderPass == BeginRenderPass(MaxTableOps, TablePasses, InlineContents)

\* one pipeline per command buffer
TableBindPipeline ==
    /\ cmd.pipeline = NoPipeline
    /\ BindPipeline(MaxTableOps, TablePipelines)

TableDraw == Draw(MaxTableOps)

NextTable ==
    \/ TableBeginRenderPass
    \/ TableBindPipeline
    \/ TableDraw

SpecTable == InitTable /\ [][NextTable]_vars

\* what the surface state of a slot holds: the image of the attachment, the
\* descriptor, or the null view
SlotSurface(c, slot) ==
    IF need_null_view(c, slot) THEN "null_view"
    ELSE IF slot.type = "RT"
    THEN c.fb.views[c.render_pass.color_indices[slot.index + 1] + 1].img
    ELSE slot.desc

\* the surface items of the call are the surface states of the slots, in the
\* order of the slots, followed by the table, and entry k of the table is the
\* offset of the k-th surface state
TableComplete(c, rmap) ==
    LET n == rmap_surface_count(rmap)
    IN  /\ Len(c.surface) = n + 1
        /\ c.surface[n + 1].type = "BINDING_TABLE"
        /\ Len(c.surface[n + 1].data) = n
        /\ c.surface[n + 1].size = 4 * n
        /\ \A k \in 1..n :
               /\ c.surface[k].type = "SURFACE"
               /\ c.surface[k].size = 4 * SurfaceStateLen(c.gen)
               /\ c.surface[k].data = SlotSurface(c, rmap.slots[k])
               /\ c.surface[n + 1].data[k] + c.surface_sba = c.surface[k].offset

\* C4: after a draw the binding table of the fragment stage has surface_count
\* entries, and each is the offset of a surface state the draw has written:
\* the surface of the slot, or a null view when the render target is not in
\* the subpass, the descriptor is unset, or the slot is unused or of an
\* unknown type
C4_TableFullyPopulated ==
    (call.name = "vkCmdDraw" /\ Recording(cmd)) =>
        TableComplete(cmd, cmd.pipeline.rmaps["fs"])

\* a release build has drawn with a map of an absent render target, an unset
\* descriptor and a slot of an unknown type: three null views
C4_Witness ==
    /\ call.name = "vkCmdDraw" /\ Recording(cmd)
    /\ LET slots == cmd.pipeline.rmaps["fs"].slots
       IN  /\ Len(slots) = 3
           /\ slots[1].type = "RT" /\ slots[2].desc = "desc_unset"
           /\ slots[3].type = "SAMPLER"
    /\ Len(cmd.surface) = 4
    /\ \A k \in 1..3 : cmd.surface[k].data = "null_view"
    /\ cmd.surface[4].data = <<cmd.surface[1].offset, cmd.surface[2].offset,
                               cmd.surface[3].offset>>


(* ------------------------- specification: draws, meta-ops and barriers *)

\* entry points recorded in one command buffer of the meta-op specification
MaxMetaOps == 5

\* no barrier, a memory barrier, and image barriers that enter and leave a
\* layout with hierarchical depth
MetaBarrierArgs ==
    {[mem |-> <<>>, img |-> <<>>],
     [mem |-> <<MemBarrier({"COLOR_ATTACHMENT_WRITE"}, {"SHADER_READ"})>>,
      img |-> <<>>],
     [mem |-> <<>>,
      img |-> <<ImageBarrier({}, {}, "ds_img", "GENERAL",
                             "DEPTH_STENCIL_ATTACHMENT_OPTIMAL")>>],
     [mem |-> <<>>,
      img |-> <<ImageBarrier({}, {}, "ds_img", "DEPTH_STENCIL_ATTACHMENT_OPTIMAL",
                             "SHADER_READ_ONLY_OPTIMAL")>>]}

InitMeta ==
    /\ \E gen \in Gens, ndebug \in BOOLEAN, nocache \in BOOLEAN :
           cmd = BeginCmd(gen, ndebug, nocache, LargeRelocCount)
    /\ call = NoCall

MetaBeginRenderPass == BeginRenderPass(MaxMetaOps, ClearAndPlainPasses, InlineContents)

MetaEndRenderPass == EndRenderPass(MaxMetaOps)

MetaBindPipeline == BindPipeline(MaxMetaOps, {pipe_wa(cmd.gen), pipe_plain})

MetaDraw == Draw(MaxMetaOps)

MetaPipelineBarrier ==
    PipelineBarrier(MaxMetaOps, StageMasks, HostStageMasks, MetaBarrierArgs)

MetaWaitEvents == WaitEvents(MaxMetaOps, MetaBarrierArgs)

NextMeta ==
    \/ MetaBeginRenderPass
    \/ MetaEndRenderPass
    \/ MetaBindPipeline
    \/ MetaDraw
    \/ MetaPipelineBarrier
    \/ MetaWaitEvents

SpecMeta == InitMeta /\ [][NextMeta]_vars

(* --------------------------------------- the render-pass-changed flag *)

\* the packets of the state bound to the render pass that a draw writes
RenderPassPackets(c) ==
    Pos(c, {"3DSTATE_MULTISAMPLE", "3DSTATE_DRAWING_RECTANGLE",
            "3DSTATE_DEPTH_BUFFER", "3DSTATE_STENCIL_BUFFER",
            "3DSTATE_HIER_DEPTH_BUFFER", "3DSTATE_CLEAR_PARAMS"})

\* all of them, once each
RenderPassStateEmitted(c) ==
    \A op \in {"3DSTATE_MULTISAMPLE", "3DSTATE_DRAWING_RECTANGLE",
               "3DSTATE_DEPTH_BUFFER", "3DSTATE_STENCIL_BUFFER",
               "3DSTATE_HIER_DEPTH_BUFFER", "3DSTATE_CLEAR_PARAMS"} :
        Cardinality(Pos(c, {op})) = 1

\* the primitives of meta-ops in the batch of the call
MetaPrimitives(c) ==
    {i \in DOMAIN c.batch :
         c.batch[i].op = "3DPRIMITIVE" /\ c.batch[i].by = "cmd_draw_meta"}

\* C21: a call that ends with a meta-op leaves render_pass_changed true; a
\* draw writes the multisample, drawing rectangle and depth, stencil and
\* hierarchical depth packets when it finds the flag true, writes none of
\* them when it finds it false, and leaves the flag false
C21_MetaForcesReEmit ==
    [][Recording(cmd') =>
           /\ (MetaPrimitives(cmd') # {}
               /\ call'.name \in {"vkCmdPipelineBarrier", "vkCmdWaitEvents",
                                  "vkCmdBeginRenderPass"})
                  => cmd'.render_pass_changed
           /\ call'.name = "vkCmdDraw" =>
                  /\ ~cmd'.render_pass_changed
                  /\ IF cmd.render_pass_changed
                     THEN RenderPassStateEmitted(cmd')
                     ELSE RenderPassPackets(cmd') = {}]_vars

\* a draw re-emitted the state of the render pass after the meta-op of a
\* barrier that followed a draw of the same render pass
C21_Witness ==
    /\ call.name = "vkCmdDraw" /\ Recording(cmd)
    /\ cmd.draw_count = 3 /\ cmd.nops = 5 /\ cmd.render_pass.name = "rp_plain"
    /\ RenderPassStateEmitted(cmd)


(* ------------------------------------------- the workaround flags *)

\* the last primitive in the batch of the call, 0 when there is none
LastPrimitive(c) ==
    IF Pos(c, {"3DPRIMITIVE"}) = {} THEN 0
    ELSE CHOOSE i \in Pos(c, {"3DPRIMITIVE"}) :
             \A j \in Pos(c, {"3DPRIMITIVE"}) : j <= i

\* the packets of the flag-guarded workaround written after the last primitive
GuardedWaAfterPrimitive(c) ==
    {i \in DOMAIN c.batch : i > LastPrimitive(c) /\ c.batch[i].by = GuardedWa}

C23_DrawCountCountsPrimitives ==
    [][/\ cmd'.draw_count >= cmd.draw_count
       /\ Recording(cmd') =>
              /\ cmd'.draw_count =
                     cmd.draw_count + Cardinality(Pos(cmd', {"3DPRIMITIVE"}))
              /\ call'.name = "vkCmdDraw" =>
                     /\ Cardinality(Pos(cmd', {"3DPRIMITIVE"})) = 1
                     /\ MetaPrimitives(cmd') = {}
              /\ call'.name # "vkCmdDraw" =>
                     MetaPrimitives(cmd') = Pos(cmd', {"3DPRIMITIVE"})
              /\ call'.name \in {"vkCmdBindPipeline", "vkCmdEndRenderPass"} =>
                     cmd'.draw_count = cmd.draw_count
      ]_vars

\* a draw, the meta-op of a barrier and a second draw: the counter is at 3
C23_Witness ==
    /\ call.name = "vkCmdDraw" /\ Recording(cmd)
    /\ cmd.render_pass.name = "rp_plain"
    /\ cmd.draw_count = 3 /\ cmd.nops = 5
    /\ cmd.batch[LastPrimitive(cmd)].arg = <<2>>


(* ------------------------------------------- depth resolves of a barrier *)

\* the layouts in which the hierarchical depth buffer is in use
HizLayouts == {"DEPTH_STENCIL_ATTACHMENT_OPTIMAL", "DEPTH_STENCIL_READ_ONLY_OPTIMAL"}

\* the layouts in which the image can be written
WriteLayouts ==
    {"GENERAL", "PRESENT_SRC_KHR", "COLOR_ATTACHMENT_OPTIMAL",
     "DEPTH_STENCIL_ATTACHMENT_OPTIMAL", "TRANSFER_DST_OPTIMAL"}

\* the depth operations of the meta-ops in the batch of the call, in order
ScheduledDepthOps(c) ==
    LET wm == SelectSeq(c.batch,
                        LAMBDA p : p.op = "3DSTATE_WM" /\
                                   p.by \in {"gen6_meta_ps", "gen7_meta_ps"})
    IN  [i \in DOMAIN wm |-> wm[i].dw1]

\* the operation of a barrier whose layouts differ in hierarchical depth use
HizChange(b) ==
    IF b.oldLayout \in HizLayouts /\ b.newLayout \notin HizLayouts
    THEN <<{"DEPTH_RESOLVE"}>>
    ELSE IF b.oldLayout \notin HizLayouts /\ b.newLayout \in HizLayouts
    THEN <<{"HIZ_RESOLVE"}>>
    ELSE <<>>

\* one operation for every change of hierarchical depth use
RECURSIVE OpsOfChanges(_)
OpsOfChanges(barriers) ==
    IF barriers = <<>> THEN <<>>
    ELSE HizChange(Head(barriers)) \o OpsOfChanges(Tail(barriers))

\* one operation for every change out of a layout that can be written
RECURSIVE OpsOfWrittenChanges(_)
OpsOfWrittenChanges(barriers) ==
    IF barriers = <<>> THEN <<>>
    ELSE (IF Head(barriers).oldLayout \in WriteLayouts
          THEN HizChange(Head(barriers)) ELSE <<>>)
         \o OpsOfWrittenChanges(Tail(barriers))

BarrierStep ==
    /\ call.name = "pending"
    /\ call'.name \in {"vkCmdPipelineBarrier", "vkCmdWaitEvents"}
    /\ Recording(cmd')

\* C24 as stated: a barrier call schedules one depth meta-op for each image
\* barrier whose layouts differ in hierarchical depth use, a hierarchical
\* depth resolve when entering and a depth resolve when leaving, and no other
C24_ResolvePerHizChange ==
    [][BarrierStep => ScheduledDepthOps(cmd') = OpsOfChanges(call.arg.args.img)]_vars

\* C24: a barrier call schedules one depth meta-op for each image barrier
\* whose old layout can be written and whose layouts differ in hierarchical
\* depth use, a hierarchical depth resolve when entering and a depth resolve
\* when leaving, each with one primitive, and no other
C24_ResolvePerWrittenHizChange ==
    [][BarrierStep =>
           /\ ScheduledDepthOps(cmd') = OpsOfWrittenChanges(call.arg.args.img)
           /\ Cardinality(MetaPrimitives(cmd')) = Len(ScheduledDepthOps(cmd'))
           /\ Pos(cmd', {"3DPRIMITIVE"}) = MetaPrimitives(cmd')]_vars

\* a call with two image barriers scheduled a hierarchical depth resolve and
\* then a depth resolve
C24_Witness ==
    /\ IsBarrierCall /\ Recording(cmd)
    /\ ScheduledDepthOps(cmd) = <<{"HIZ_RESOLVE"}, {"DEPTH_RESOLVE"}>>

(* --------------------------------- specification: descriptor set offsets *)

\* entry points recorded in one command buffer of the descriptor specification
MaxDsetOps == 3

\* struct intel_pipeline_layout: counts[i] is layouts[i]->dynamic_desc_count
PipelineLayout(counts) ==
    [layout_count |-> Len(counts),
     dynamic_desc_count |-> counts,
     dynamic_desc_indices |-> [i \in DOMAIN counts |-> SeqSum(SubSeq(counts, 1, i - 1))],
     total_dynamic_desc_count |-> SeqSum(counts)]

DsetLayouts ==
    {PipelineLayout(<<0>>), PipelineLayout(<<1>>), PipelineLayout(<<0, 1>>),
     PipelineLayout(<<1, 1>>), PipelineLayout(<<2, 0>>)}

\* region_begin of the descriptor sets, and the dynamic offsets of the calls
DsetRegions == {64, 128}
DsetDynamicOffsets == {256}

\* what a fresh allocation may hold: zeroes or what a freed array has left
UninitSetOffsets == {0, 64}
UninitDynamicOffsets == {0, 512}

\* a pointer to an array: NULL, or the elements it points at
NullArray == [ptr |-> "NULL", cells |-> <<>>]

\* struct intel_cmd_dset_data after intel_cmd_begin()
NoDsetData ==
    [set_offsets |-> NullArray, set_offset_count |-> 0,
     dynamic_offsets |-> NullArray, dynamic_offset_count |-> 0]

\* the command buffer as far as the descriptor set data is concerned; the
\* ghosts bound_sets and bound_dynamic hold what the calls have bound
DsetCmd(ndebug) ==
    [status |-> "recording", ndebug |-> ndebug, result |-> "VK_SUCCESS",
     data |-> NoDsetData, bound_sets |-> <<>>, bound_dynamic |-> <<>>,
     asserts |-> 0, nops |-> 0]

\* intel_alloc(): NULL, or an array of count elements nobody has written
intel_alloc(ok, count, contents) ==
    IF ok THEN [ptr |-> "heap", cells |-> [i \in 1..count |-> contents[i]]]
    ELSE NullArray

\* the first half of cmd_alloc_dset_data(): the set offsets
alloc_set_offsets(c, pipeline_layout, ok, contents) ==
    LET array == intel_alloc(ok, pipeline_layout.layout_count, contents)
    IN  IF array = NullArray
        THEN [cmd_fail(c, "VK_ERROR_OUT_OF_HOST_MEMORY")
                  EXCEPT !.data.set_offsets = NullArray,
                         !.data.set_offset_count = 0]
        ELSE [c EXCEPT !.data.set_offsets = array,
                       !.data.set_offset_count = pipeline_layout.layout_count]

\* the second half of cmd_alloc_dset_data(): the dynamic offsets
alloc_dynamic_offsets(c, pipeline_layout, ok, contents) ==
    LET array == intel_alloc(ok, pipeline_layout.total_dynamic_desc_count, contents)
    IN  IF array = NullArray
        THEN [cmd_fail(c, "VK_ERROR_OUT_OF_HOST_MEMORY")
                  EXCEPT !.data.dynamic_offsets = NullArray,
                         !.data.dynamic_offset_count = 0]
        ELSE [c EXCEPT !.data.dynamic_offsets = array,
                       !.data.dynamic_offset_count =
                           pipeline_layout.total_dynamic_desc_count]

\* the second half of cmd_alloc_dset_data()
cmd_alloc_dynamic_offsets(c, pipeline_layout, alloc) ==
    IF c.data.dynamic_offset_count < pipeline_layout.total_dynamic_desc_count
    THEN alloc_dynamic_offsets(c, pipeline_layout, alloc.dynamic_ok, alloc.dynamic)
    ELSE c

\* cmd_alloc_dset_data(): alloc holds the outcome of the allocations; a set
\* offset array that cannot be had ends the function. Every caller drops
\* the return value
cmd_alloc_dset_data(c, pipeline_layout, alloc) ==
    IF c.data.set_offset_count < pipeline_layout.layout_count
    THEN IF alloc.sets_ok
         THEN cmd_alloc_dynamic_offsets(
                  alloc_set_offsets(c, pipeline_layout, TRUE, alloc.sets),
                  pipeline_layout, alloc)
         ELSE alloc_set_offsets(c, pipeline_layout, FALSE, alloc.sets)
    ELSE cmd_alloc_dynamic_offsets(c, pipeline_layout, alloc)

\* a store to array[first .. first + count - 1] (from 0): it lands in the
\* array, or it goes through a null pointer, or it runs past the end
StoreAt(c, array, first, count, values) ==
    IF array = NullArray THEN [c EXCEPT !.status = "crashed"]
    ELSE IF first + count > Len(array.cells) THEN [c EXCEPT !.status = "corrupt"]
    ELSE c

\* assert() of cmd_copy_dset_data(); the ghost counts the failed ones
dset_assert(c, cond) ==
    debug_check([c EXCEPT !.asserts = IF cond THEN @ ELSE @ + 1], cond)

copy_set_offset(c, index, region_begin) ==
    LET d == StoreAt(c, c.data.set_offsets, index, 1, <<region_begin>>)
    IN  IF Recording(d)
        THEN [d EXCEPT !.data.set_offsets.cells[index + 1] = region_begin,
                       !.bound_sets =
                           [i \in DOMAIN @ \cup {index + 1} |->
                                IF i = index + 1 THEN region_begin ELSE @[i]]]
        ELSE d

copy_dynamic_offsets(c, first, count, dynamic_offsets) ==
    LET d == StoreAt(c, c.data.dynamic_offsets, first, count, dynamic_offsets)
    IN  IF Recording(d)
        THEN [d EXCEPT !.data.dynamic_offsets.cells =
                           CopyAt(@, first + 1, count, dynamic_offsets),
                       !.bound_dynamic =
                           [i \in DOMAIN @ \cup ((first + 1)..(first + count)) |->
                                IF first < i /\ i <= first + count
                                THEN dynamic_offsets[i - first] ELSE @[i]]]
        ELSE d

cmd_copy_dset_data(c, pipeline_layout, index, region_begin, dynamic_offsets) ==
    LET count == pipeline_layout.dynamic_desc_count[index + 1]
        first == pipeline_layout.dynamic_desc_indices[index + 1]
        c1 == dset_assert(c, index < c.data.set_offset_count)
        c2 == IF Recording(c1) THEN copy_set_offset(c1, index, region_begin)
              ELSE c1
        c3 == IF Recording(c2) /\ count > 0
              THEN dset_assert(c2, first + count - 1 < c2.data.dynamic_offset_count)
              ELSE c2
    IN  IF Recording(c3) /\ count > 0
        THEN copy_dynamic_offsets(c3, first, count, dynamic_offsets)
        ELSE c3

\* the loop of vkCmdBindDescriptorSets() from its i-th pass on: offset_count
\* is the running total, dynamic_offsets what pDynamicOffsets points at
RECURSIVE bind_descriptor_sets(_, _, _, _, _, _, _, _)
bind_descriptor_sets(c, pipeline_layout, firstSet, sets, i, offset_count, dynamicOffsetCount, dynamic_offsets) ==
    IF i > Len(sets) \/ ~Recording(c) THEN c
    ELSE LET n == pipeline_layout.dynamic_desc_count[firstSet + i]
         IN  IF offset_count + n <= dynamicOffsetCount
             THEN bind_descriptor_sets(
                      cmd_copy_dset_data(c, pipeline_layout, firstSet + i - 1,
                                         sets[i], dynamic_offsets),
                      pipeline_layout, firstSet, sets, i + 1, offset_count + n,
                      dynamicOffsetCount,
                      SubSeq(dynamic_offsets, n + 1, Len(dynamic_offsets)))
             ELSE bind_descriptor_sets(c, pipeline_layout, firstSet, sets, i + 1,
                                       offset_count + n, dynamicOffsetCount,
                                       dynamic_offsets)

vkCmdBindDescriptorSets(c, pipeline_layout, firstSet, sets, dynamic_offsets, alloc) ==
    bind_descriptor_sets(cmd_alloc_dset_data(c, pipeline_layout, alloc),
                         pipeline_layout, firstSet, sets, 1, 0,
                         Len(dynamic_offsets), dynamic_offsets)

\* cmd_bind_graphics_pipeline() as far as the descriptor set data is concerned
cmd_bind_dset_pipeline(c, pipeline_layout, alloc) ==
    cmd_alloc_dset_data(c, pipeline_layout, alloc)

\* the arrays cmd_alloc_dset_data() asks for with this layout
NeedsSetOffsets(c, pipeline_layout) ==
    c.data.set_offset_count < pipeline_layout.layout_count

NeedsDynamicOffsets(c, pipeline_layout) ==
    c.data.dynamic_offset_count < pipeline_layout.total_dynamic_desc_count

\* the outcomes of the allocations of one call
RECURSIVE SeqsOf(_, _)
SeqsOf(n, values) ==
    IF n = 0 THEN {<<>>}
    ELSE {Append(s, v) : s \in SeqsOf(n - 1, values), v \in values}

AllocOutcomes(c, pipeline_layout) ==
    {[sets_ok |-> so, sets |-> s, dynamic_ok |-> do, dynamic |-> d] :
        so \in (IF NeedsSetOffsets(c, pipeline_layout) THEN BOOLEAN ELSE {TRUE}),
        s \in (IF NeedsSetOffsets(c, pipeline_layout)
               THEN SeqsOf(pipeline_layout.layout_count, UninitSetOffsets)
               ELSE {<<>>}),
        do \in (IF NeedsDynamicOffsets(c, pipeline_layout) THEN BOOLEAN ELSE {TRUE}),
        d \in (IF NeedsDynamicOffsets(c, pipeline_layout)
               THEN SeqsOf(pipeline_layout.total_dynamic_desc_count,
                           UninitDynamicOffsets)
               ELSE {<<>>})}

\* an allocation of the call fails
AllocFails(c, pipeline_layout, alloc) ==
    \/ NeedsSetOffsets(c, pipeline_layout) /\ ~alloc.sets_ok
    \/ NeedsDynamicOffsets(c, pipeline_layout) /\ ~alloc.dynamic_ok

\* what the call record keeps of a bind
BindArg(c, pipeline_layout, alloc) ==
    [failed |-> AllocFails(c, pipeline_layout, alloc),
     grown |-> NeedsSetOffsets(c, pipeline_layout) \/
               NeedsDynamicOffsets(c, pipeline_layout)]

InitDset ==
    /\ \E ndebug \in BOOLEAN : cmd = DsetCmd(ndebug)
    /\ call = NoCall

DsetCall(name, arg, c) ==
    /\ Recording(cmd) /\ cmd.nops < MaxDsetOps
    /\ Record(name, arg, [c EXCEPT !.nops = @ + 1])

DsetBindPipeline ==
    \E pipeline_layout \in DsetLayouts :
        \E alloc \in AllocOutcomes(cmd, pipeline_layout) :
            DsetCall("vkCmdBindPipeline",
                     BindArg(cmd, pipeline_layout, alloc),
                     cmd_bind_dset_pipeline(cmd, pipeline_layout, alloc))

\* the application passes the dynamic offsets the sets ask for
DsetBindDescriptorSets ==
    \E pipeline_layout \in DsetLayouts :
        \E firstSet \in 0..(pipeline_layout.layout_count - 1) :
            \E count \in 1..(pipeline_layout.layout_count - firstSet) :
                \E sets \in SeqsOf(count, DsetRegions) :
                    \E dynamic_offsets \in
                           SeqsOf(SeqSum(SubSeq(pipeline_layout.dynamic_desc_count,
                                                firstSet + 1, firstSet + count)),
                                  DsetDynamicOffsets) :
                        \E alloc \in AllocOutcomes(cmd, pipeline_layout) :
                            DsetCall("vkCmdBindDescriptorSets",
                                     BindArg(cmd, pipeline_layout, alloc),
                                     vkCmdBindDescriptorSets(
                                         cmd, pipeline_layout, firstSet, sets,
                                         dynamic_offsets, alloc))

NextDset ==
    \/ DsetBindPipeline
    \/ DsetBindDescriptorSets

SpecDset == InitDset /\ [][NextDset]_vars

\* an allocation of the last call has failed
AllocFailed ==
    /\ call.name \in {"vkCmdBindPipeline", "vkCmdBindDescriptorSets"}
    /\ call.arg.failed

\* C25: when the allocation of the set offset array or of the dynamic offset
\* array fails in a pipeline bind or a descriptor set bind, the result of
\* the command buffer is out-of-host-memory and recording goes on: no
\* assertion fails and nothing is stored through the missing array
C25_AllocFailureIsRecorded ==
    AllocFailed => /\ cmd.result = "VK_ERROR_OUT_OF_HOST_MEMORY"
                   /\ cmd.asserts = 0
                   /\ Recording(cmd)

\* what the calls have bound is what the arrays hold
BoundStay(c) ==
    /\ \A i \in DOMAIN c.bound_sets :
           /\ i <= Len(c.data.set_offsets.cells)
           /\ c.data.set_offsets.cells[i] = c.bound_sets[i]
    /\ \A i \in DOMAIN c.bound_dynamic :
           /\ i <= Len(c.data.dynamic_offsets.cells)
           /\ c.data.dynamic_offsets.cells[i] = c.bound_dynamic[i]

\* the last call has made an array longer, and no allocation has ever failed
GrownByLastCall ==
    /\ call.name \in {"vkCmdBindPipeline", "vkCmdBindDescriptorSets"}
    /\ call.arg.grown
    /\ cmd.result = "VK_SUCCESS" /\ Recording(cmd)

\* C28: the set offsets and the dynamic offsets bound earlier in a recording
\* are still in the arrays, at their indices, after a pipeline bind or a
\* descriptor set bind whose layout has more sets or more dynamic
\* descriptors than the arrays have held
C28_OffsetsSurviveGrowth ==
    GrownByLastCall => BoundStay(cmd)

(* ------------------------------- ownership of the dynamic state by binds *)

\* C26: after any sequence of graphics pipeline binds, the ownership mask in
\* the bind state is the ownership mask of the pipeline bound last; after a
\* bind of a pipeline that owns no category every setter takes effect
C26_MaskFollowsLastBind ==
    (cmd.pipeline # NoPipeline /\ Recording(cmd)) =>
        cmd.use_pipeline_dynamic_state = cmd.pipeline.use_pipeline_dynamic_state

(* ---------------------------------------- the data cache flush on Gen6 *)

\* the PIPE_CONTROLs of the call that flush the data cache
DcFlushPackets(c) ==
    {i \in DOMAIN c.batch : /\ c.batch[i].op = "PIPE_CONTROL"
                            /\ "DC_FLUSH" \in c.batch[i].dw1}

\* C29: no PIPE_CONTROL written on Gen6 has the data cache flush bit, which
\* exists from Gen7 on, whether the flush comes from an image layout
\* transition or from the shader write bit of the output access mask
C29_NoDcFlushOnGen6 ==
    cmd.gen = 600 => DcFlushPackets(cmd) = {}

(* ------------------------------------------- specification: guard band *)

\* the viewport centres the function is applied to, on each axis
GuardbandCentres ==
    {-40000, -28673, -28672, -12289, -12288, -1, 0, 4096, 12287, 12288,
     28671, 28672, 40000}

NoGuardband == [min_gbx |-> 0, max_gbx |-> 0, min_gby |-> 0, max_gby |-> 0]

\* viewport_get_guardband(): the conversions to float and back to int leave
\* these integers, all below 2^24, as they are
viewport_get_guardband(gen, center_x, center_y) ==
    LET max_extent == IF gen >= 700 THEN 32768 ELSE 16384
        half_len == 8192 \div 2
        Clamp(center) ==
            IF center - half_len < -max_extent THEN -max_extent + half_len
            ELSE IF center + half_len > max_extent - 1 THEN max_extent - half_len
            ELSE center
    IN  [min_gbx |-> Clamp(center_x) - half_len,
         max_gbx |-> Clamp(center_x) + half_len,
         min_gby |-> Clamp(center_y) - half_len,
         max_gby |-> Clamp(center_y) + half_len]

InitGuardband ==
    /\ \E gen \in Gens, center_x \in GuardbandCentres, center_y \in GuardbandCentres :
           cmd = [gen |-> gen, center_x |-> center_x, center_y |-> center_y,
                  guardband |-> NoGuardband]
    /\ call = NoCall

GetGuardband ==
    /\ call = NoCall
    /\ Record("viewport_get_guardband", <<>>,
              [cmd EXCEPT !.guardband =
                              viewport_get_guardband(cmd.gen, cmd.center_x,
                                                     cmd.center_y)])

NextGuardband == GetGuardband

SpecGuardband == InitGuardband /\ [][NextGuardband]_vars

\* the screen space the hardware addresses
GuardbandExtent(gen) ==
    IF gen >= 700 THEN -32768..32767 ELSE -16384..16383

\* C30: for every viewport centre the guard band is a square of 8192 by 8192
\* whose bounds all lie in the screen space the hardware addresses, -16384
\* to 16383 on Gen6 and -32768 to 32767 from Gen7 on, and it is centred at
\* the viewport centre unless that would leave the range
C30_GuardbandInExtent ==
    call.name = "viewport_get_guardband" =>
        LET gb == cmd.guardband
        IN  /\ gb.max_gbx - gb.min_gbx = 8192
            /\ gb.max_gby - gb.min_gby = 8192
            /\ {gb.min_gbx, gb.max_gbx, gb.min_gby, gb.max_gby}
                   \subseteq GuardbandExtent(cmd.gen)
            /\ (cmd.center_x - 4096 \in GuardbandExtent(cmd.gen) /\
                cmd.center_x + 4096 \in GuardbandExtent(cmd.gen))
                   => gb.min_gbx = cmd.center_x - 4096
            /\ (cmd.center_y - 4096 \in GuardbandExtent(cmd.gen) /\
                cmd.center_y + 4096 \in GuardbandExtent(cmd.gen))
                   => gb.min_gby = cmd.center_y - 4096

(* --------------------------------- specification: pipeline statistics *)

\* entry points recorded in one command buffer of the query specification
MaxQueryOps == 3

\* slots of a query pool
MaxQuerySlots == 2

\* the statistics in the order of the Vulkan specification, and the register
\* of each ("0": the hardware has none and a zero is stored)
StatisticsRegs(gen) ==
    <<[bit |-> "INPUT_ASSEMBLY_PRIMITIVES", reg |-> "IA_PRIMITIVES_COUNT"],
      [bit |-> "VERTEX_SHADER_INVOCATIONS", reg |-> "VS_INVOCATION_COUNT"],
      [bit |-> "GEOMETRY_SHADER_INVOCATIONS", reg |-> "GS_INVOCATION_COUNT"],
      [bit |-> "GEOMETRY_SHADER_PRIMITIVES", reg |-> "GS_PRIMITIVES_COUNT"],
      [bit |-> "CLIPPING_INVOCATIONS", reg |-> "CL_INVOCATION_COUNT"],
      [bit |-> "CLIPPING_PRIMITIVES", reg |-> "CL_PRIMITIVES_COUNT"],
      [bit |-> "FRAGMENT_SHADER_INVOCATIONS", reg |-> "PS_INVOCATION_COUNT"],
      [bit |-> "TESSELLATION_CONTROL_SHADER_PATCHES",
       reg |-> IF gen >= 700 THEN "HS_INVOCATION_COUNT" ELSE "0"],
      [bit |-> "TESSELLATION_EVALUATION_SHADER_INVOCATIONS",
       reg |-> IF gen >= 700 THEN "DS_INVOCATION_COUNT" ELSE "0"],
      [bit |-> "COMPUTE_SHADER_INVOCATIONS", reg |-> "0"]>>

query_init_pipeline_statistics(gen, info) ==
    LET chosen == SelectSeq(StatisticsRegs(gen),
                            LAMBDA r : r.bit \in info.pipelineStatistics)
    IN  [regs |-> [i \in DOMAIN chosen |-> chosen[i].reg],
         reg_count |-> Len(chosen),
         slot_stride |-> u_align(Len(chosen) * 8 * 2, 64)]

\* intel_query_create() of a pipeline statistics pool: size is what
\* intel_mem_alloc() is asked for
intel_query_create(gen, info) ==
    LET q == query_init_pipeline_statistics(gen, info)
    IN  [type |-> "PIPELINE_STATISTICS", slot_count |-> info.queryCount,
         regs |-> q.regs, reg_count |-> q.reg_count,
         slot_stride |-> q.slot_stride,
         size |-> q.slot_stride * info.queryCount]

\* the 64-bit stores of cmd_query_pipeline_statistics(): one for each
\* register, 8 bytes after the one before
statistics_stores(query, offset, slot, kind) ==
    {[slot |-> slot, kind |-> kind, reg |-> i, offset |-> offset + 8 * (i - 1)] :
        i \in 1..query.reg_count}

\* vkCmdBeginQuery() of a pipeline statistics query
begin_statistics_query(c, slot) ==
    [c EXCEPT !.stores = @ \cup statistics_stores(c.query, c.query.slot_stride * slot,
                                                  slot, "begin")]

\* vkCmdEndQuery() of a pipeline statistics query
end_statistics_query(c, slot) ==
    [c EXCEPT !.stores =
                  @ \cup statistics_stores(
                             c.query,
                             c.query.slot_stride * slot + c.query.slot_stride,
                             slot, "end")]

\* where query_process_pipeline_statistics() reads the values of a slot
query_process_pipeline_statistics(query, slot) ==
    [before |-> [j \in 1..query.reg_count |->
                     query.slot_stride * slot + 8 * (j - 1)],
     after |-> [j \in 1..query.reg_count |->
                    query.slot_stride * slot + 8 * query.reg_count + 8 * (j - 1)]]

\* the statistics a pool is created for
StatisticsMasks ==
    {{"INPUT_ASSEMBLY_PRIMITIVES"},
     {"INPUT_ASSEMBLY_PRIMITIVES", "VERTEX_SHADER_INVOCATIONS",
      "FRAGMENT_SHADER_INVOCATIONS", "COMPUTE_SHADER_INVOCATIONS"},
     {"INPUT_ASSEMBLY_PRIMITIVES", "VERTEX_SHADER_INVOCATIONS",
      "CLIPPING_INVOCATIONS", "CLIPPING_PRIMITIVES",
      "TESSELLATION_CONTROL_SHADER_PATCHES"},
     {StatisticsRegs(600)[i].bit : i \in 1..Len(StatisticsRegs(600))}}

InitQuery ==
    /\ \E gen \in Gens, mask \in StatisticsMasks, count \in 1..MaxQuerySlots :
           cmd = [gen |-> gen,
                  query |-> intel_query_create(
                                gen, [pipelineStatistics |-> mask,
                                      queryCount |-> count]),
                  stores |-> {}, nops |-> 0]
    /\ call = NoCall

QueryCall(name, slot, c) ==
    /\ cmd.nops < MaxQueryOps
    /\ Record(name, slot, [c EXCEPT !.nops = @ + 1])

QueryBegin ==
    \E slot \in 0..(cmd.query.slot_count - 1) :
        QueryCall("vkCmdBeginQuery", slot, begin_statistics_query(cmd, slot))

QueryEnd ==
    \E slot \in 0..(cmd.query.slot_count - 1) :
        QueryCall("vkCmdEndQuery", slot, end_statistics_query(cmd, slot))

NextQuery ==
    \/ QueryBegin
    \/ QueryEnd

SpecQuery == InitQuery /\ [][NextQuery]_vars

\* the bytes of a slot in the pool
SlotBytes(query, slot) ==
    (query.slot_stride * slot)..(query.slot_stride * (slot + 1) - 1)

\* C27: the values begin-query and end-query store for a slot lie in the
\* bytes of that slot, and the values of end-query are stored where the
\* processing of the results reads the values after, right behind the values
\* before
C27_SnapshotsInOwnSlot ==
    \A s \in cmd.stores :
        /\ {s.offset, s.offset + 7} \subseteq SlotBytes(cmd.query, s.slot)
        /\ s.kind = "begin" =>
               s.offset = query_process_pipeline_statistics(cmd.query, s.slot).before[s.reg]
        /\ s.kind = "end" =>
               s.offset = query_process_pipeline_statistics(cmd.query, s.slot).after[s.reg]

====
